---- MODULE Spec2Model ----
(***************************************************************************)
(* A model of the loupedeck driver: the rolling transaction-ID allocator   *)
(* and the message codec (message.go), the three send modes (Send,         *)
(* SendWithCallback, sendAndWait), the receive loop (Listen), the zone      *)
(* mapping of touches, Display.Draw, the connect sequence and the helper   *)
(* objects built on the bindings.                                          *)
(*                                                                         *)
(* The specifications share the variables:                                 *)
(*   SpecAlloc     several execution contexts stepping through             *)
(*                 newTransactionID statement by statement;                *)
(*   Spec          sender contexts, the device and the receive loop;       *)
(*   SpecDispatch  the receive loop dispatching button and knob events;    *)
(*   SpecCodec     single calls of NewMessage/asBytes, ParseMessage,       *)
(*                 touchCoordToButton and Draw on drawn arguments;         *)
(*   SpecConnect   tryConnect with its doConnect attempts;                 *)
(*   SpecWidgets   the helper objects: WatchedInt, IntKnob, MultiButton,   *)
(*                 the drag watcher of the rotary display, WidgetHolder;   *)
(*   SpecReuse     transaction IDs coming round again under               *)
(*                 fire-and-forget sends;                                  *)
(*   SpecTouchDial a bank of touch dials and drags on and off its strip;   *)
(*   SpecHolder    a WidgetHolder with swipes, rotations of the large      *)
(*                 knob and calls of Draw.                                 *)
(***************************************************************************)
EXTENDS Integers, Sequences, FiniteSets, TLC

\* ------------------------------------------------------------------ bounds
NumCallers == 2      \* execution contexts calling newTransactionID (SpecAlloc)
MaxAllocs == 260     \* allocations explored in SpecAlloc (past the 255 wrap)

NumSenders == 1      \* execution contexts issuing sends (Spec)
MaxMsgs == 1         \* messages built by NewMessage in a run of Spec
MaxFrames == 2       \* frames the device sends in a run of Spec

MaxPayload == 256    \* payload lengths 0..MaxPayload handed to NewMessage (SpecCodec)
MaxRaw == 4          \* lengths 0..MaxRaw of the raw buffers handed to ParseMessage
MaxTouchX == 480     \* touch x coordinates 0..MaxTouchX, sampled at the zone edges
MaxTouchY == 300     \* touch y coordinates 0..MaxTouchY, sampled at the zone edges
MaxImage == 2        \* images of 1..MaxImage by 1..MaxImage pixels handed to Draw

MaxWatchers == 2     \* watchers added to a WatchedInt (SpecWidgets)
MaxEntries == 3      \* entries of a MultiButton
MaxTouches == 4      \* touches of a MultiButton counted after its last Add
MaxClock == 700      \* the clock runs from 0 to MaxClock milliseconds
MaxDowns == 2        \* touch-downs of one gesture on the rotary display
MaxWidgets == 3      \* widgets of a WidgetHolder
MaxDialSpan == 271   \* the widest range max - min of a TouchDial

\* ------------------------------------------------------- program constants
ByteMod == 256       \* uint8 arithmetic of transactionID
WordBits == 8        \* the model's int: two's complement of WordBits bits
CTKnob == 0
DragClick == 1
DragDone == 2
ButtonPress == 0
KnobRotate == 1
Serial == 3
Reset == 6
Version == 7
SetBrightness == 9
Draw == 15
WriteFramebuff == 16
Touch == 77
TouchEnd == 109
TouchCT == 82
TouchEndCT == 114
ButtonDown == 0
ButtonUp == 1
Circle == 7
Button1 == 8
Knob1 == 1
Knob2 == 2
Knob3 == 3
TouchLeft == 1
TouchRight == 2
Touch1 == 3

VARIABLES
    transactionID,        \* l.transactionID (uint8)
    transactionMutex,     \* l.transactionMutex: 0 = unlocked, else the holder
    allocPc,              \* per caller: position inside newTransactionID
    allocT,               \* per caller: the local t of newTransactionID
    issued,               \* history: the IDs stored by newTransactionID, in order
    transactionCallbacks, \* l.transactionCallbacks: map[byte]transactionCallback
    buttonBindings,       \* keys of l.buttonBindings holding a function
    buttonUpBindings,     \* keys of l.buttonUpBindings holding a function
    knobBindings,         \* keys of l.knobBindings holding a function
    touchBindings,        \* keys of l.touchBindings holding a function
    touchUpBindings,      \* keys of l.touchUpBindings holding a function
    touchDKBindings,      \* l.touchDKBindings != nil
    wire,                 \* frames written by the device, not yet read
    arrived,              \* history: number of frames the device has sent
    loopPc,               \* position of the goroutine running Listen
    cur,                  \* the frame Listen is working on
    curCb,                \* the function Listen has called and not yet left
    running,              \* functions called by Listen that have not returned
    fired,                \* history: functions called for the frame cur
    nread,                \* history: frames returned by ReadMessage so far
    dropped,              \* history: the frame last read was zero-length and skipped
    readErr,              \* history: ReadMessage has returned an error
    invoked,              \* history: times each registered callback was called
    snd,                  \* per sender: its position and its message
    nalloc,               \* history: messages built so far
    chans,                \* per sendAndWait call: state of its channel ch
    timedOut,             \* history: sendAndWait calls that returned the timeout,
                          \* each with the number of frames arrived by then
    fatal,                \* the Go runtime has aborted the process
    task,                 \* the library call under study and its arguments
    taskPc,               \* position inside that call
    buf,                  \* the wire bytes produced by asBytes or handed to ParseMessage
    parsed,               \* outcome of ParseMessage
    zone,                 \* outcome of touchCoordToButton
    written,              \* byte slices handed to l.conn.WriteMessage by Draw
    connPc,               \* position of the goroutine inside tryConnect
    attempt,              \* per doConnect call: its position and outcome
    result,               \* the buffered channel result of tryConnect
    timer,                \* time.After(2 * time.Second) has fired
    connRet,              \* what tryConnect returned to the application
    nattempts,            \* history: doConnect calls started
    displays,             \* l.displays of the session being connected
    Product,              \* l.Product of the session being connected
    scene,                \* which helper object of the library is set up
    watched,              \* the WatchedInt: value, notifiers, and the calls of its last Set
    lastOp,               \* history: the last operation on the helper and the value before it
    ikMin,                \* IntKnob.min
    ikMax,                \* IntKnob.max
    mbValues,             \* MultiButton.values
    mbTrace,              \* history: the watched value after each touch of the MultiButton
    dragDKStarted,        \* l.dragDKStarted
    dragDKStartX,         \* l.dragDKStartX
    dragDKStartY,         \* l.dragDKStartY
    dragDKStartTime,      \* l.dragDKStartTime
    now,                  \* the clock, in milliseconds
    dragLog,              \* history: calls of l.dragDKBinding since the gesture began
    gesture,              \* history: first touch-down, touch-downs and touch-up of the gesture
    count,                \* WidgetHolder: len(widgets)
    active,               \* WidgetHolder: the active index
    wActive,              \* per widget: DKAnalogWidget.active
    wLog,                 \* history: Activate/Deactivate calls of the last watcher call
    wValue,               \* per widget: the value of DKAnalogWidget.Value
    ctKnob,               \* the widget whose DisplayKnob the binding of CTKnob calls
    wDrew,                \* history: the widgets that drew in the last operation
    touchdivisor,         \* TouchDial.touchdivisor
    dragstart,            \* TouchDial.dragstart
    dragv,                \* TouchDial.dragv1, dragv2, dragv3
    tdValues,             \* the values of the WatchedInts w1, w2, w3 of the TouchDial
    tdMin,                \* min of the three IntKnobs of the TouchDial
    tdMax                 \* max of the three IntKnobs of the TouchDial

allocVars == <<transactionMutex, allocPc, allocT, issued>>
bindVars == <<buttonBindings, buttonUpBindings, knobBindings, touchBindings,
              touchUpBindings, touchDKBindings>>
loopVars == <<loopPc, cur, curCb, running, fired, nread, dropped, readErr, invoked>>
sendVars == <<snd, nalloc, chans, timedOut>>
codecVars == <<task, taskPc, buf, parsed, zone, written>>
connVars == <<connPc, attempt, result, timer, connRet, nattempts, displays, Product>>
dragVars == <<dragDKStarted, dragDKStartX, dragDKStartY, dragDKStartTime, now,
              dragLog, gesture>>
holderVars == <<count, active, wActive, wLog, wValue, ctKnob, wDrew>>
dialVars == <<touchdivisor, dragstart, dragv, tdValues, tdMin, tdMax>>
widgetVars == <<scene, watched, lastOp, ikMin, ikMax, mbValues, mbTrace, dragVars,
                holderVars, dialVars>>
vars == <<transactionID, allocVars, transactionCallbacks, bindVars, wire, arrived,
          loopVars, sendVars, fatal, codecVars, connVars, widgetVars>>
engineVars == <<transactionCallbacks, bindVars, wire, arrived, loopVars, sendVars, fatal>>

Callers == 1..NumCallers

\* ---------------------------------------------------------------- message.go
\* the increment without the rollover to 1
newTransactionID_NoSkip(t) == (t + 1) % ByteMod

\* t := l.transactionID; t++; if t == 0 { t = 1 }
newTransactionID(t) ==
    LET t1 == (t + 1) % ByteMod
    IN  IF t1 = 0 THEN 1 ELSE t1

\* a context enters newTransactionID and stands at the Lock statement
CallNewTransactionID(c) ==
    /\ allocPc[c] = "idle"
    /\ Len(issued) + Cardinality({d \in Callers : allocPc[d] # "idle"}) < MaxAllocs
    /\ allocPc' = [allocPc EXCEPT ![c] = "lock"]
    /\ UNCHANGED <<transactionID, transactionMutex, allocT, issued, engineVars, codecVars, connVars, widgetVars>>

\* a Lock that does not exclude the other callers
Lock_NoExclusion(c) ==
    /\ allocPc[c] = "lock"
    /\ allocPc' = [allocPc EXCEPT ![c] = "locked"]
    /\ UNCHANGED <<transactionID, transactionMutex, allocT, issued, engineVars, codecVars, connVars, widgetVars>>

\* l.transactionMutex.Lock()
Lock(c) ==
    /\ allocPc[c] = "lock"
    /\ transactionMutex = 0
    /\ transactionMutex' = c
    /\ allocPc' = [allocPc EXCEPT ![c] = "locked"]
    /\ UNCHANGED <<transactionID, allocT, issued, engineVars, codecVars, connVars, widgetVars>>

\* t := l.transactionID
Load(c) ==
    /\ allocPc[c] = "locked"
    /\ allocT' = [allocT EXCEPT ![c] = transactionID]
    /\ allocPc' = [allocPc EXCEPT ![c] = "loaded"]
    /\ UNCHANGED <<transactionID, transactionMutex, issued, engineVars, codecVars, connVars, widgetVars>>

\* t++; if t == 0 { t = 1 }; l.transactionID = t
Store(c) ==
    /\ allocPc[c] = "loaded"
    /\ LET t == newTransactionID(allocT[c])
       IN  /\ allocT' = [allocT EXCEPT ![c] = t]
           /\ transactionID' = t
           /\ issued' = Append(issued, t)
    /\ allocPc' = [allocPc EXCEPT ![c] = "stored"]
    /\ UNCHANGED <<transactionMutex, engineVars, codecVars, connVars, widgetVars>>

\* l.transactionMutex.Unlock(); return t
Unlock(c) ==
    /\ allocPc[c] = "stored"
    /\ transactionMutex' = 0
    /\ allocPc' = [allocPc EXCEPT ![c] = "idle"]
    /\ allocT' = [allocT EXCEPT ![c] = 0]
    /\ UNCHANGED <<transactionID, issued, engineVars, codecVars, connVars, widgetVars>>

\* ------------------------------------------------ values shared by the engine
Senders == 1..NumSenders
MsgIds == 1..MaxMsgs

\* a nil function value
Nil == [kind |-> "nil", id |-> 0, arg |-> <<>>]
\* the outcome of indexing a frame past its end
IndexPanic == [kind |-> "panic", id |-> 0, arg |-> <<>>]
NoFrame == [n |-> 0, b |-> <<>>]
IdleSender == [pc |-> "idle", op |-> "none", txn |-> 0, id |-> 0,
               ret |-> "none", write |-> "none"]

CallbackKinds == {"app", "wait"}
BindingKinds == {"buttonDown", "buttonUp", "knob", "touchDown", "touchUp", "touchCT"}

\* m[k] of a Go map: the zero value nil for a missing key
Lookup(m, k) == IF k \in DOMAIN m THEN m[k] ELSE Nil
\* m[k] = v of a Go map
MapSet(m, k, v) == [j \in DOMAIN m \cup {k} |-> IF j = k THEN v ELSE m[j]]

\* binary.BigEndian.Uint16 of two bytes
Uint16(hi, lo) == hi * 256 + lo

\* ---------------------------------------------------------------- message.go
\* a wire form with the type in front of the length
asBytes_TypeFirst(messageType, txn, data) ==
    LET length == IF Len(data) + 3 > 255 THEN 255 ELSE Len(data) + 3
    IN  <<messageType, length, txn>> \o data

\* NewMessage followed by asBytes: [length][type][transactionID][data...]
asBytes(messageType, txn, data) ==
    LET length == IF Len(data) + 3 > 255 THEN 255 ELSE Len(data) + 3
    IN  <<length, messageType, txn>> \o data

\* a decoder that takes as payload the bytes counted by the length byte
ParseMessage_ByLength(b) ==
    IF Len(b) < 3 THEN IndexPanic
    ELSE [length |-> b[1], messageType |-> b[2], transactionID |-> b[3],
          data |-> SubSeq(b, 4, IF b[1] < Len(b) THEN b[1] ELSE Len(b))]

\* ParseMessage: b[0], b[1], b[2] and b[3:]; indexing a buffer of fewer than
\* 3 bytes panics, and the error result is always nil
ParseMessage(b) ==
    IF Len(b) < 3 THEN IndexPanic
    ELSE [length |-> b[1], messageType |-> b[2], transactionID |-> b[3],
          data |-> SubSeq(b, 4, Len(b))]

\* ------------------------------------------------------------------ inputs
\* a touchCoordToButton that tests x > 420 for the right strip
touchCoordToButton_Off(x, y) ==
    IF x < 60 THEN TouchLeft
    ELSE IF x > 420 THEN TouchRight
    ELSE Touch1 + ((x - 60) \div 90) + 4 * (y \div 90)

\* touchCoordToButton
touchCoordToButton(x, y) ==
    IF x < 60 THEN TouchLeft
    ELSE IF x >= 420 THEN TouchRight
    ELSE Touch1 + ((x - 60) \div 90) + 4 * (y \div 90)

BindTouch(b) ==
    /\ ~fatal /\ loopPc # "panicked"
    /\ b \notin touchBindings
    /\ touchBindings' = touchBindings \cup {b}
    /\ UNCHANGED <<transactionID, allocVars, codecVars, connVars, widgetVars, transactionCallbacks, buttonBindings,
                   buttonUpBindings, knobBindings, touchUpBindings, touchDKBindings,
                   wire, arrived, loopVars, sendVars, fatal>>

\* BindButton: l.buttonBindings[b] = f
BindButton(b) ==
    /\ ~fatal /\ loopPc # "panicked"
    /\ b \notin buttonBindings
    /\ buttonBindings' = buttonBindings \cup {b}
    /\ UNCHANGED <<transactionID, allocVars, codecVars, connVars, widgetVars, transactionCallbacks,
                   buttonUpBindings, knobBindings, touchBindings, touchUpBindings,
                   touchDKBindings, wire, arrived, loopVars, sendVars, fatal>>

\* BindButtonUp: l.buttonUpBindings[b] = f
BindButtonUp(b) ==
    /\ ~fatal /\ loopPc # "panicked"
    /\ b \notin buttonUpBindings
    /\ buttonUpBindings' = buttonUpBindings \cup {b}
    /\ UNCHANGED <<transactionID, allocVars, codecVars, connVars, widgetVars, transactionCallbacks,
                   buttonBindings, knobBindings, touchBindings, touchUpBindings,
                   touchDKBindings, wire, arrived, loopVars, sendVars, fatal>>

\* BindKnob: l.knobBindings[k] = f
BindKnob(k) ==
    /\ ~fatal /\ loopPc # "panicked"
    /\ k \notin knobBindings
    /\ knobBindings' = knobBindings \cup {k}
    /\ UNCHANGED <<transactionID, allocVars, codecVars, connVars, widgetVars, transactionCallbacks,
                   buttonBindings, buttonUpBindings, touchBindings, touchUpBindings,
                   touchDKBindings, wire, arrived, loopVars, sendVars, fatal>>

\* ------------------------------------------------------------------ device
\* frames the device may send: a zero-length frame, a touch in the left
\* strip with transaction ID 0 and with every ID a message of the run can
\* carry, a touch in the grid as an event, and a Version reply with every
\* such non-zero ID
InTxns == 0..MaxMsgs
InFrames ==
    {<<>>}
    \cup {asBytes(Touch, t, <<0, 0, 10, 0, 10, 1>>) : t \in InTxns}
    \cup {asBytes(Touch, 0, <<0, 0, 100, 0, 10, 1>>)}
    \cup {asBytes(Version, t, <<1, 2, 3>>) : t \in InTxns \ {0}}

\* event frames (transaction ID 0) for the dispatch by type: button Circle
\* with status down, up and 2, button Button1 down, and knob Knob1 with
\* magnitudes around 0, 128 and 255, knob Knob2 with 1; and a button and a
\* knob frame whose payload is a 16-bit identifier followed by one byte
KnobMagnitudes == {0, 1, 127, 128, 254, 255}
DispatchFrames ==
    {asBytes(ButtonPress, 0, <<Circle, st>>) : st \in {ButtonDown, ButtonUp, 2}}
    \cup {asBytes(ButtonPress, 0, <<Button1, ButtonDown>>)}
    \cup {asBytes(KnobRotate, 0, <<Knob1, v>>) : v \in KnobMagnitudes}
    \cup {asBytes(KnobRotate, 0, <<Knob2, 1>>)}
    \cup {asBytes(ButtonPress, 0, <<0, Circle, ButtonDown>>)}
    \cup {asBytes(KnobRotate, 0, <<0, Knob1, 255>>)}

\* the process is running: no unrecovered panic, no runtime abort
Alive == ~fatal /\ loopPc # "panicked"

\* the device writes a frame to the transport
DeviceFrame(f) ==
    /\ Alive
    /\ arrived < MaxFrames
    /\ wire' = Append(wire, [n |-> arrived + 1, b |-> f])
    /\ arrived' = arrived + 1
    /\ UNCHANGED <<transactionID, allocVars, codecVars, connVars, widgetVars, transactionCallbacks, bindVars,
                   loopVars, sendVars, fatal>>

\* ------------------------------------------------------------------- Listen
\* a knob value read as a signed byte
knobValue_Signed(value) == IF value >= 128 THEN value - 256 ELSE value

\* case KnobRotate: v := value; if value == 255 { v = -1 }
knobValue(value) == IF value = 255 THEN -1 ELSE value

\* a button case that tries the down-binding whatever the status
buttonDispatch_DownFirst(button, upDown) ==
    IF button \in buttonBindings
    THEN [kind |-> "buttonDown", id |-> button, arg |-> <<upDown>>]
    ELSE IF upDown = ButtonUp /\ button \in buttonUpBindings
    THEN [kind |-> "buttonUp", id |-> button, arg |-> <<upDown>>]
    ELSE Nil

\* case ButtonPress: the down-binding for status down, else the up-binding
\* for status up, else nothing but a log line
buttonDispatch(button, upDown) ==
    IF upDown = ButtonDown /\ button \in buttonBindings
    THEN [kind |-> "buttonDown", id |-> button, arg |-> <<upDown>>]
    ELSE IF upDown = ButtonUp /\ button \in buttonUpBindings
    THEN [kind |-> "buttonUp", id |-> button, arg |-> <<upDown>>]
    ELSE Nil

\* a dispatch that takes the identifier from the first two payload bytes
\* and the status or the magnitude from the third
TypeDispatch_Payload(message) ==
    LET t == message[2]
    IN  IF t = ButtonPress THEN
            IF Len(message) < 6 THEN IndexPanic
            ELSE LET button == Uint16(message[4], message[5])
                     upDown == message[6]
                 IN  buttonDispatch(button, upDown)
        ELSE IF t = KnobRotate THEN
            IF Len(message) < 6 THEN IndexPanic
            ELSE LET knob == Uint16(message[4], message[5])
                     value == message[6]
                 IN  IF knob \in knobBindings
                     THEN [kind |-> "knob", id |-> knob,
                           arg |-> <<knobValue(value)>>]
                     ELSE Nil
        ELSE IF t \in {Touch, TouchEnd, TouchCT, TouchEndCT} THEN
            IF Len(message) < 9 THEN IndexPanic
            ELSE LET x == Uint16(message[5], message[6])
                     y == Uint16(message[7], message[8])
                     b == touchCoordToButton(x, y)
                 IN  IF t = Touch THEN
                         IF b \in touchBindings
                         THEN [kind |-> "touchDown", id |-> b, arg |-> <<ButtonDown, x, y>>]
                         ELSE Nil
                     ELSE IF t = TouchEnd THEN
                         IF b \in touchUpBindings
                         THEN [kind |-> "touchUp", id |-> b, arg |-> <<ButtonUp, x, y>>]
                         ELSE Nil
                     ELSE IF touchDKBindings
                         THEN [kind |-> "touchCT", id |-> 0,
                               arg |-> <<IF t = TouchCT THEN ButtonDown ELSE ButtonUp, x, y>>]
                         ELSE Nil
        ELSE Nil

\* the switch on m.messageType: the binding to call, nil when none is
\* registered, or the panic of reading past the end of the frame
TypeDispatch(message) ==
    LET t == message[2]
    IN  IF t = ButtonPress THEN
            IF Len(message) < 5 THEN IndexPanic
            ELSE LET button == Uint16(message[3], message[4])
                     upDown == message[5]
                 IN  buttonDispatch(button, upDown)
        ELSE IF t = KnobRotate THEN
            IF Len(message) < 5 THEN IndexPanic
            ELSE LET knob == Uint16(message[3], message[4])
                     value == message[5]
                 IN  IF knob \in knobBindings
                     THEN [kind |-> "knob", id |-> knob,
                           arg |-> <<knobValue(value)>>]
                     ELSE Nil
        ELSE IF t \in {Touch, TouchEnd, TouchCT, TouchEndCT} THEN
            IF Len(message) < 9 THEN IndexPanic
            ELSE LET x == Uint16(message[5], message[6])
                     y == Uint16(message[7], message[8])
                     b == touchCoordToButton(x, y)
                 IN  IF t = Touch THEN
                         IF b \in touchBindings
                         THEN [kind |-> "touchDown", id |-> b, arg |-> <<ButtonDown, x, y>>]
                         ELSE Nil
                     ELSE IF t = TouchEnd THEN
                         IF b \in touchUpBindings
                         THEN [kind |-> "touchUp", id |-> b, arg |-> <<ButtonUp, x, y>>]
                         ELSE Nil
                     ELSE IF touchDKBindings
                         THEN [kind |-> "touchCT", id |-> 0,
                               arg |-> <<IF t = TouchCT THEN ButtonDown ELSE ButtonUp, x, y>>]
                         ELSE Nil
        ELSE Nil

\* the function Listen calls for a parsed frame: the transaction callback when
\* the ID is not 0 (nil when none is registered), else the binding of the type
Route(message) ==
    LET m == ParseMessage(message)
    IN  IF m.transactionID # 0
        THEN Lookup(transactionCallbacks, m.transactionID)
        ELSE TypeDispatch(message)

\* a call started in the background: Listen goes on to the next read
Call_Async(h) ==
    /\ loopPc' = "read"
    /\ curCb' = h
    /\ running' = running \cup {h}
    /\ fired' = {h}
    /\ invoked' = IF h.kind \in CallbackKinds
                  THEN [invoked EXCEPT ![h.id] = @ + 1]
                  ELSE invoked

\* Listen calls h and stays in the call until h returns
Call(h) ==
    /\ loopPc' = IF h.kind \in CallbackKinds THEN "callback" ELSE "binding"
    /\ curCb' = h
    /\ running' = running \cup {h}
    /\ fired' = {h}
    /\ invoked' = IF h.kind \in CallbackKinds
                  THEN [invoked EXCEPT ![h.id] = @ + 1]
                  ELSE invoked

\* the application starts Listen
ListenStart ==
    /\ Alive
    /\ loopPc = "idle"
    /\ loopPc' = "read"
    /\ UNCHANGED <<transactionID, allocVars, codecVars, connVars, widgetVars, transactionCallbacks, bindVars, wire,
                   arrived, cur, curCb, running, fired, nread, dropped, readErr, invoked,
                   sendVars, fatal>>

\* a loop without the len(message) == 0 test: the empty frame reaches
\* ParseMessage
ListenRead_NoLengthCheck ==
    /\ Alive
    /\ loopPc = "read"
    /\ wire # <<>>
    /\ LET f == Head(wire)
           message == f.b
       IN  /\ wire' = Tail(wire)
           /\ nread' = nread + 1
           /\ dropped' = (Len(message) = 0)
           /\ IF Len(message) < 3 \/ Route(message) = IndexPanic
              THEN /\ loopPc' = "panicked"
                   /\ cur' = f
                   /\ fired' = {}
                   /\ UNCHANGED <<curCb, running, invoked>>
              ELSE IF Route(message) = Nil
              THEN /\ cur' = NoFrame
                   /\ fired' = {}
                   /\ UNCHANGED <<loopPc, curCb, running, invoked>>
              ELSE /\ cur' = f
                   /\ Call(Route(message))
    /\ UNCHANGED <<transactionID, allocVars, codecVars, connVars, widgetVars, transactionCallbacks, bindVars, arrived,
                   readErr, sendVars, fatal>>

\* ReadMessage returns a frame: skip it when empty, else parse it and call the
\* transaction callback or the binding; with nothing to call, read again
ListenRead ==
    /\ Alive
    /\ loopPc = "read"
    /\ wire # <<>>
    /\ LET f == Head(wire)
           message == f.b
       IN  /\ wire' = Tail(wire)
           /\ nread' = nread + 1
           /\ dropped' = (Len(message) = 0)
           /\ IF Len(message) = 0
              THEN /\ cur' = NoFrame
                   /\ fired' = {}
                   /\ UNCHANGED <<loopPc, curCb, running, invoked>>
              ELSE IF Len(message) < 3 \/ Route(message) = IndexPanic
              THEN /\ loopPc' = "panicked"
                   /\ cur' = f
                   /\ fired' = {}
                   /\ UNCHANGED <<curCb, running, invoked>>
              ELSE IF Route(message) = Nil
              THEN /\ cur' = NoFrame
                   /\ fired' = {}
                   /\ UNCHANGED <<loopPc, curCb, running, invoked>>
              ELSE /\ cur' = f
                   /\ Call(Route(message))
    /\ UNCHANGED <<transactionID, allocVars, codecVars, connVars, widgetVars, transactionCallbacks, bindVars, arrived,
                   readErr, sendVars, fatal>>

\* a read error that is logged, after which the loop goes on with the empty
\* message (the loop as it was before it panicked on errors)
ListenReadError_Continue ==
    /\ Alive
    /\ loopPc = "read"
    /\ readErr' = TRUE
    /\ UNCHANGED <<transactionID, allocVars, codecVars, connVars, widgetVars, transactionCallbacks, bindVars, wire,
                   arrived, loopPc, cur, curCb, running, fired, nread, dropped, invoked,
                   sendVars, fatal>>

\* ReadMessage returns an error: panic("Websocket connection failed")
ListenReadError ==
    /\ Alive
    /\ loopPc = "read"
    /\ readErr' = TRUE
    /\ loopPc' = "panicked"
    /\ UNCHANGED <<transactionID, allocVars, codecVars, connVars, widgetVars, transactionCallbacks, bindVars, wire,
                   arrived, cur, curCb, running, fired, nread, dropped, invoked,
                   sendVars, fatal>>

\* a return that leaves the table entry in place
ListenCallbackReturn_NoClear ==
    /\ Alive
    /\ \/ loopPc = "callback" /\ curCb.kind = "app"
       \/ loopPc = "sent"
    /\ running' = running \ {curCb}
    /\ curCb' = Nil
    /\ loopPc' = "read"
    /\ cur' = NoFrame
    /\ fired' = {}
    /\ UNCHANGED <<transactionID, allocVars, codecVars, connVars, widgetVars, transactionCallbacks, bindVars, wire,
                   arrived, nread, dropped, readErr, invoked, sendVars, fatal>>

\* a return after which the frame is also dispatched by its type
ListenCallbackReturn_ThenDispatch ==
    /\ Alive
    /\ \/ loopPc = "callback" /\ curCb.kind = "app"
       \/ loopPc = "sent"
    /\ transactionCallbacks' = MapSet(transactionCallbacks, cur.b[3], Nil)
    /\ LET h == TypeDispatch(cur.b)
       IN  IF h \in {Nil, IndexPanic}
           THEN /\ running' = running \ {curCb}
                /\ curCb' = Nil
                /\ loopPc' = "read"
                /\ cur' = NoFrame
                /\ fired' = {}
           ELSE /\ running' = (running \ {curCb}) \cup {h}
                /\ curCb' = h
                /\ loopPc' = "binding"
                /\ fired' = fired \cup {h}
                /\ UNCHANGED cur
    /\ UNCHANGED <<transactionID, allocVars, codecVars, connVars, widgetVars, bindVars, wire, arrived, nread, dropped,
                   readErr, invoked, sendVars, fatal>>

\* the callback c(m) returns; l.transactionCallbacks[m.transactionID] = nil
ListenCallbackReturn ==
    /\ Alive
    /\ \/ loopPc = "callback" /\ curCb.kind = "app"
       \/ loopPc = "sent"
    /\ transactionCallbacks' = MapSet(transactionCallbacks, cur.b[3], Nil)
    /\ running' = running \ {curCb}
    /\ curCb' = Nil
    /\ loopPc' = "read"
    /\ cur' = NoFrame
    /\ fired' = {}
    /\ UNCHANGED <<transactionID, allocVars, codecVars, connVars, widgetVars, bindVars, wire, arrived,
                   nread, dropped, readErr, invoked, sendVars, fatal>>

\* the binding called for a frame returns
ListenBindingReturn ==
    /\ Alive
    /\ loopPc = "binding"
    /\ running' = running \ {curCb}
    /\ curCb' = Nil
    /\ loopPc' = "read"
    /\ cur' = NoFrame
    /\ fired' = {}
    /\ UNCHANGED <<transactionID, allocVars, codecVars, connVars, widgetVars, transactionCallbacks, bindVars, wire,
                   arrived, nread, dropped, readErr, invoked, sendVars, fatal>>

\* the callback of sendAndWait executes ch <- m2 on a closed channel: panic
WaitCallbackPanic ==
    /\ Alive
    /\ loopPc = "callback"
    /\ curCb.kind = "wait"
    /\ chans[curCb.id] = "closed"
    /\ loopPc' = "panicked"
    /\ UNCHANGED <<transactionID, allocVars, codecVars, connVars, widgetVars, transactionCallbacks, bindVars, wire,
                   arrived, cur, curCb, running, fired, nread, dropped, readErr, invoked,
                   sendVars, fatal>>

\* ------------------------------------------------------------------ senders
SendOps == {"Send", "SendWithCallback", "sendAndWait"}

\* NewMessage: a message with a fresh transaction ID, to be passed to op
NewMessage(s, op) ==
    /\ Alive
    /\ snd[s].pc = "idle"
    /\ nalloc < MaxMsgs
    /\ transactionID' = newTransactionID(transactionID)
    /\ nalloc' = nalloc + 1
    /\ snd' = [snd EXCEPT ![s] = [pc |-> "msg", op |-> op,
                                  txn |-> newTransactionID(transactionID),
                                  id |-> nalloc + 1, ret |-> "none",
                                  write |-> "none"]]
    /\ UNCHANGED <<allocVars, codecVars, connVars, widgetVars, transactionCallbacks, bindVars, wire, arrived,
                   loopVars, chans, timedOut, fatal>>

\* NewMessage for one more request with a callback, built after the
\* MaxMsgs messages of the run
NewMessageAgain(s) ==
    /\ Alive
    /\ snd[s].pc = "idle"
    /\ nalloc = MaxMsgs
    /\ transactionID' = newTransactionID(transactionID)
    /\ nalloc' = nalloc + 1
    /\ snd' = [snd EXCEPT ![s] = [pc |-> "msg", op |-> "SendWithCallback",
                                  txn |-> newTransactionID(transactionID),
                                  id |-> nalloc + 1, ret |-> "none",
                                  write |-> "none"]]
    /\ UNCHANGED <<allocVars, codecVars, connVars, widgetVars, transactionCallbacks,
                   bindVars, wire, arrived, loopVars, chans, timedOut, fatal>>

\* SendWithCallback (also inside sendAndWait, after ch := make(chan)) starts
\* the assignment l.transactionCallbacks[m.transactionID] = c
RegisterBegin(s) ==
    /\ Alive
    /\ snd[s].pc = "msg"
    /\ snd[s].op \in {"SendWithCallback", "sendAndWait"}
    /\ snd' = [snd EXCEPT ![s].pc = "mapwrite"]
    /\ chans' = IF snd[s].op = "sendAndWait"
                THEN [chans EXCEPT ![snd[s].id] = "open"]
                ELSE chans
    /\ UNCHANGED <<transactionID, allocVars, codecVars, connVars, widgetVars, transactionCallbacks, bindVars, wire,
                   arrived, loopVars, nalloc, timedOut, fatal>>

\* the assignment l.transactionCallbacks[m.transactionID] = c completes
RegisterEnd(s) ==
    /\ Alive
    /\ snd[s].pc = "mapwrite"
    /\ transactionCallbacks' =
         MapSet(transactionCallbacks, snd[s].txn,
                [kind |-> IF snd[s].op = "sendAndWait" THEN "wait" ELSE "app",
                 id |-> snd[s].id, arg |-> <<>>])
    /\ snd' = [snd EXCEPT ![s].pc = "registered"]
    /\ UNCHANGED <<transactionID, allocVars, codecVars, connVars, widgetVars, bindVars, wire, arrived, loopVars,
                   nalloc, chans, timedOut, fatal>>

\* Send: l.conn.WriteMessage(...) succeeds or fails, its result is dropped,
\* and Send returns nil
Send(s) ==
    /\ Alive
    /\ \/ snd[s].pc = "msg" /\ snd[s].op = "Send"
       \/ snd[s].pc = "registered"
    /\ \E ok \in BOOLEAN :
         snd' = [snd EXCEPT ![s].write = IF ok THEN "ok" ELSE "failed",
                            ![s].ret = IF snd[s].op = "sendAndWait" THEN "none" ELSE "nil",
                            ![s].pc = IF snd[s].op = "sendAndWait" THEN "select" ELSE "idle"]
    /\ UNCHANGED <<transactionID, allocVars, codecVars, connVars, widgetVars, transactionCallbacks, bindVars, wire,
                   arrived, loopVars, nalloc, chans, timedOut, fatal>>

\* m := l.NewMessage(t, data); l.Send(m) by a caller that expects no reply:
\* a fresh transaction ID, the write, and nothing else; such messages are
\* sent after the MaxMsgs messages of the run and before the later request
SendFireAndForget(s) ==
    /\ Alive
    /\ snd[s].pc = "idle"
    /\ nalloc = MaxMsgs
    /\ transactionID' = newTransactionID(transactionID)
    /\ \E ok \in BOOLEAN :
         snd' = [snd EXCEPT ![s] = [pc |-> "idle", op |-> "Send",
                                    txn |-> newTransactionID(transactionID),
                                    id |-> 0, ret |-> "nil",
                                    write |-> IF ok THEN "ok" ELSE "failed"]]
    /\ UNCHANGED <<allocVars, codecVars, connVars, widgetVars, transactionCallbacks,
                   bindVars, wire, arrived, loopVars, nalloc, chans, timedOut, fatal>>

\* sendAndWait: case resp = <-ch, taken when its callback is at ch <- m2;
\* return resp, nil and the deferred close(ch)
SelectRecv(s) ==
    /\ Alive
    /\ snd[s].pc = "select"
    /\ loopPc = "callback"
    /\ curCb.kind = "wait"
    /\ curCb.id = snd[s].id
    /\ loopPc' = "sent"
    /\ snd' = [snd EXCEPT ![s].pc = "idle", ![s].ret = "resp"]
    /\ chans' = [chans EXCEPT ![snd[s].id] = "closed"]
    /\ UNCHANGED <<transactionID, allocVars, codecVars, connVars, widgetVars, transactionCallbacks, bindVars, wire,
                   arrived, cur, curCb, running, fired, nread, dropped, readErr, invoked,
                   nalloc, timedOut, fatal>>

\* sendAndWait: case <-time.After(timeout); return nil, error and the
\* deferred close(ch)
SelectTimeout(s) ==
    /\ Alive
    /\ snd[s].pc = "select"
    /\ snd' = [snd EXCEPT ![s].pc = "idle", ![s].ret = "timeout"]
    /\ chans' = [chans EXCEPT ![snd[s].id] = "closed"]
    /\ timedOut' = timedOut \cup {[id |-> snd[s].id, at |-> arrived]}
    /\ UNCHANGED <<transactionID, allocVars, codecVars, connVars, widgetVars, transactionCallbacks, bindVars, wire,
                   arrived, loopVars, nalloc, fatal>>

\* Listen reads or clears the map, or a second sender writes it, while a
\* sender is inside its map assignment: the runtime may abort the process
\* ("fatal error: concurrent map read and map write")
ConcurrentMapAccess ==
    /\ Alive
    /\ \E s \in Senders :
         /\ snd[s].pc = "mapwrite"
         /\ \/ \E r \in Senders : r # s /\ snd[r].pc = "mapwrite"
            \/ loopPc = "sent"
            \/ loopPc = "callback" /\ curCb.kind = "app"
            \/ /\ loopPc = "read"
               /\ wire # <<>>
               /\ Len(Head(wire).b) >= 3
               /\ Head(wire).b[3] # 0
    /\ fatal' = TRUE
    /\ UNCHANGED <<transactionID, allocVars, codecVars, connVars, widgetVars, transactionCallbacks, bindVars, wire,
                   arrived, loopVars, sendVars>>

\* ------------------------------------------------------------- display.go
\* addDisplay: the descriptor stored in l.displays[name]
addDisplay(name, id, width, height, offsetx, offsety, bigEndian) ==
    [Name |-> name, id |-> id, width |-> width, height |-> height,
     offsetx |-> offsetx, offsety |-> offsety, bigEndian |-> bigEndian]

\* the table SetDisplays builds for a product: a function from the names to
\* the descriptors ('L' = 76, 'A' = 65, 'R' = 82, 'W' = 87, 'M' = 77)
DisplayTable(product) ==
    IF product = "0003" THEN
        [n \in {"left", "main", "right", "dial"} |->
            IF n = "left" THEN addDisplay(n, 76, 60, 270, 0, 0, FALSE)
            ELSE IF n = "main" THEN addDisplay(n, 65, 360, 270, 60, 0, FALSE)
            ELSE IF n = "right" THEN addDisplay(n, 82, 60, 270, 420, 0, FALSE)
            ELSE addDisplay(n, 87, 240, 240, 0, 0, TRUE)]
    ELSE IF product = "0007" THEN
        [n \in {"left", "main", "right", "all", "dial"} |->
            IF n = "left" THEN addDisplay(n, 77, 60, 270, 0, 0, FALSE)
            ELSE IF n = "main" THEN addDisplay(n, 77, 360, 270, 60, 0, FALSE)
            ELSE IF n = "right" THEN addDisplay(n, 77, 60, 270, 420, 0, FALSE)
            ELSE IF n = "all" THEN addDisplay(n, 77, 480, 270, 0, 0, FALSE)
            ELSE addDisplay(n, 87, 240, 240, 0, 0, TRUE)]
    ELSE IF product = "0004" THEN
        [n \in {"left", "main", "right"} |->
            IF n = "left" THEN addDisplay(n, 76, 60, 270, 0, 0, FALSE)
            ELSE IF n = "main" THEN addDisplay(n, 65, 360, 270, 0, 0, FALSE)
            ELSE addDisplay(n, 82, 60, 270, 0, 0, FALSE)]
    ELSE IF product \in {"0006", "0d06"} THEN
        [n \in {"left", "main", "right", "all"} |->
            IF n = "left" THEN addDisplay(n, 77, 60, 270, 0, 0, FALSE)
            ELSE IF n = "main" THEN addDisplay(n, 77, 360, 270, 60, 0, FALSE)
            ELSE IF n = "right" THEN addDisplay(n, 77, 60, 270, 420, 0, FALSE)
            ELSE addDisplay(n, 77, 480, 270, 0, 0, FALSE)]
    ELSE <<>>

KnownProducts == {"0003", "0004", "0006", "0007", "0d06"}

\* binary.BigEndian.PutUint16 of uint16(v)
PutUint16(v) == <<(v % 65536) \div 256, v % 256>>

\* the two bytes of a Draw that ignores the byte order of the descriptor
PixelBytes_AlwaysLittle(pixel, bigEndian) ==
    <<pixel % 256, pixel \div 256>>

\* the two bytes Draw appends for one RGB565 pixel
PixelBytes(pixel, bigEndian) ==
    LET lowByte == pixel % 256
        highByte == pixel \div 256
    IN  IF bigEndian THEN <<highByte, lowByte>> ELSE <<lowByte, highByte>>

\* the bytes Draw appends for the first k pixels of im in the order of its
\* loops: y outside, x inside
RECURSIVE PixelData(_, _, _)
PixelData(im, bigEndian, k) ==
    IF k = 0 THEN <<>>
    ELSE PixelData(im, bigEndian, k - 1)
         \o PixelBytes(im.px[<<(k - 1) % im.w, (k - 1) \div im.w>>], bigEndian)

\* the payload with the caller's offsets alone, as Draw built it before the
\* descriptors carried an offset
FramebuffData_NoOffset(d, im, xoff, yoff) ==
    PutUint16(d.id) \o PutUint16(xoff) \o PutUint16(yoff)
    \o PutUint16(im.w) \o PutUint16(im.h)
    \o PixelData(im, d.bigEndian, im.w * im.h)

\* Draw: the payload of its WriteFramebuff message
FramebuffData(d, im, xoff, yoff) ==
    LET x == xoff + d.offsetx
        y == yoff + d.offsety
    IN  PutUint16(d.id) \o PutUint16(x) \o PutUint16(y)
        \o PutUint16(im.w) \o PutUint16(im.h)
        \o PixelData(im, d.bigEndian, im.w * im.h)

\* Draw: the payload of its Draw message
DrawData(d) == PutUint16(d.id)

\* --------------------------------------------- calls of the pure functions
NotParsed == [kind |-> "none", id |-> 0, arg |-> <<>>]
ParseError == [kind |-> "error", id |-> 0, arg |-> <<>>]

\* a payload of n bytes
Payload(n, seed) == [i \in 1..n |-> (seed + i) % 256]

\* the messages handed to NewMessage and asBytes
CodecTasks ==
    {[fn |-> "codec", messageType |-> t, transactionID |-> x, data |-> Payload(n, 7)] :
        t \in {ButtonPress, WriteFramebuff, 255}, x \in {0, 1, 255}, n \in 0..MaxPayload}

\* the raw buffers handed to ParseMessage: every sequence of at most MaxRaw
\* bytes out of 0, 7 and 255
RawBytes == {0, 7, 255}
RawBufs == UNION {[1..n -> RawBytes] : n \in 0..MaxRaw}
ParseTasks == {[fn |-> "parse", b |-> b] : b \in RawBufs}

\* the coordinates handed to touchCoordToButton: the last and the first
\* column and row of every 30-pixel band, x = 425 and the largest uint16
TouchXs == {x \in 0..MaxTouchX : x % 30 \in {0, 29}} \cup {425, 65535}
TouchYs == {y \in 0..MaxTouchY : y % 30 \in {0, 29}} \cup {65535}
TouchTasks == {[fn |-> "touch", x |-> x, y |-> y] : x \in TouchXs, y \in TouchYs}

\* the images handed to Draw: RGB565 pixels out of a palette
Palette == <<0, 4660, 63519, 65535>>
Images ==
    {[w |-> w, h |-> h,
      px |-> [c \in (0..(w - 1)) \X (0..(h - 1)) |->
                 Palette[((seed + c[1] + w * c[2]) % 4) + 1]]] :
        w \in 1..MaxImage, h \in 1..MaxImage, seed \in 0..1}
DrawDisplays ==
    {DisplayTable("0003")["main"], DisplayTable("0003")["right"],
     DisplayTable("0003")["dial"], DisplayTable("0004")["left"]}
DrawTasks ==
    {[fn |-> "draw", d |-> d, im |-> im, xoff |-> xoff, yoff |-> yoff] :
        d \in DrawDisplays, im \in Images, xoff \in {0, 10}, yoff \in {0, 20}}

Tasks == CodecTasks \cup ParseTasks \cup TouchTasks \cup DrawTasks
NoTask == [fn |-> "none"]

\* NewMessage(messageType, data) with the transaction ID of the task, then
\* asBytes
Encode ==
    /\ task.fn = "codec"
    /\ taskPc = "start"
    /\ buf' = asBytes(task.messageType, task.transactionID, task.data)
    /\ taskPc' = "encoded"
    /\ UNCHANGED <<transactionID, allocVars, engineVars, connVars, widgetVars, task, parsed,
                   zone, written>>

\* ParseMessage(buf)
Parse ==
    /\ \/ task.fn = "codec" /\ taskPc = "encoded"
       \/ task.fn = "parse" /\ taskPc = "start"
    /\ parsed' = ParseMessage(buf)
    /\ taskPc' = "done"
    /\ UNCHANGED <<transactionID, allocVars, engineVars, connVars, widgetVars, task, buf,
                   zone, written>>

\* touchCoordToButton(x, y)
CallTouchCoordToButton ==
    /\ task.fn = "touch"
    /\ taskPc = "start"
    /\ zone' = touchCoordToButton(task.x, task.y)
    /\ taskPc' = "done"
    /\ UNCHANGED <<transactionID, allocVars, engineVars, connVars, widgetVars, task, buf,
                   parsed, written>>

\* Draw: NewMessage(WriteFramebuff, data) and Send
DrawWriteFramebuff ==
    /\ task.fn = "draw"
    /\ taskPc = "start"
    /\ transactionID' = newTransactionID(transactionID)
    /\ written' = Append(written,
                         asBytes(WriteFramebuff, newTransactionID(transactionID),
                                 FramebuffData(task.d, task.im, task.xoff, task.yoff)))
    /\ taskPc' = "framebuff"
    /\ UNCHANGED <<allocVars, engineVars, connVars, widgetVars, task, buf, parsed, zone>>

\* Draw: NewMessage(Draw, data2) and Send
DrawDraw ==
    /\ task.fn = "draw"
    /\ taskPc = "framebuff"
    /\ transactionID' = newTransactionID(transactionID)
    /\ written' = Append(written,
                         asBytes(Draw, newTransactionID(transactionID), DrawData(task.d)))
    /\ taskPc' = "done"
    /\ UNCHANGED <<allocVars, engineVars, connVars, widgetVars, task, buf, parsed, zone>>


\* ------------------------------------------------- tryConnect and doConnect
\* the doConnect calls of one tryConnect: 1 in its goroutine, 2 after the timeout
Attempts == 1..2
NoAttempt == [pc |-> "none", err |-> "none", txn |-> 0, callbacks |-> {},
              delivered |-> FALSE]
NoResult == [l |-> 0, err |-> "none"]
Products == KnownProducts \cup {"ffff"}

\* the values (l, err) returned by the doConnect call a
connectResult(a) ==
    [l |-> IF attempt[a].err = "nil" THEN a ELSE 0, err |-> attempt[a].err]

\* the connect machinery before tryConnect is called
ConnIdle ==
    /\ connPc = "idle"
    /\ attempt = [a \in Attempts |-> NoAttempt]
    /\ result = <<>>
    /\ timer = FALSE
    /\ connRet = NoResult
    /\ nattempts = 0
    /\ displays = [a \in Attempts |-> <<>>]

\* ConnectAuto / ConnectPath call tryConnect: result := make(chan, 1), the
\* goroutine calling doConnect is started and the caller enters the select
TryConnect ==
    /\ connPc = "idle"
    /\ connPc' = "select"
    /\ nattempts' = nattempts + 1
    /\ attempt' = [attempt EXCEPT ![1].pc = "dial"]
    /\ UNCHANGED <<transactionID, allocVars, engineVars, codecVars, widgetVars, result, timer,
                   connRet, displays, Product>>

\* doConnect: dialer.Dial returns; on success the Loupedeck struct is built
\* with its empty maps, on failure doConnect returns nil, err
DoConnectDial(a) ==
    /\ attempt[a].pc = "dial"
    /\ \E ok \in BOOLEAN :
         attempt' = [attempt EXCEPT ![a].pc = IF ok THEN "font" ELSE "returned",
                                    ![a].err = IF ok THEN "none" ELSE "dial"]
    /\ UNCHANGED <<transactionID, allocVars, engineVars, codecVars, widgetVars, connPc, result,
                   timer, connRet, nattempts, displays, Product>>

\* doConnect: l.SetDefaultFont() returns
DoConnectFont(a) ==
    /\ attempt[a].pc = "font"
    /\ \E ok \in BOOLEAN :
         attempt' = [attempt EXCEPT ![a].pc = IF ok THEN "reset" ELSE "returned",
                                    ![a].err = IF ok THEN "none" ELSE "font"]
    /\ UNCHANGED <<transactionID, allocVars, engineVars, codecVars, widgetVars, connPc, result,
                   timer, connRet, nattempts, displays, Product>>

\* doConnect: the Reset and the SetBrightness message, each built by
\* NewMessage and passed to Send, which returns nil
DoConnectSend(a) ==
    /\ attempt[a].pc \in {"reset", "brightness"}
    /\ attempt' = [attempt EXCEPT
                     ![a].pc = IF attempt[a].pc = "reset" THEN "brightness" ELSE "version",
                     ![a].txn = newTransactionID(attempt[a].txn)]
    /\ UNCHANGED <<transactionID, allocVars, engineVars, codecVars, widgetVars, connPc, result,
                   timer, connRet, nattempts, displays, Product>>

\* doConnect: the Version and the Serial message, each passed to
\* SendWithCallback; after the second, return l, nil
DoConnectSendWithCallback(a) ==
    /\ attempt[a].pc \in {"version", "serial"}
    /\ attempt' = [attempt EXCEPT
                     ![a].pc = IF attempt[a].pc = "version" THEN "serial" ELSE "returned",
                     ![a].err = IF attempt[a].pc = "version" THEN "none" ELSE "nil",
                     ![a].txn = newTransactionID(attempt[a].txn),
                     ![a].callbacks = @ \cup {newTransactionID(attempt[a].txn)}]
    /\ UNCHANGED <<transactionID, allocVars, engineVars, codecVars, widgetVars, connPc, result,
                   timer, connRet, nattempts, displays, Product>>

\* the goroutine of tryConnect: result <- r, once its doConnect has returned
GoroutineSend ==
    /\ attempt[1].pc = "returned"
    /\ ~attempt[1].delivered
    /\ result' = Append(result, connectResult(1))
    /\ attempt' = [attempt EXCEPT ![1].delivered = TRUE]
    /\ UNCHANGED <<transactionID, allocVars, engineVars, codecVars, widgetVars, connPc, timer,
                   connRet, nattempts, displays, Product>>

\* a select that makes a second attempt when the first returned an error
SelectResult_RetryOnError ==
    /\ connPc = "select"
    /\ result # <<>>
    /\ result' = Tail(result)
    /\ IF Head(result).err = "nil"
       THEN /\ connRet' = Head(result)
            /\ connPc' = "returned"
            /\ UNCHANGED <<attempt, nattempts>>
       ELSE /\ connPc' = "retry"
            /\ nattempts' = nattempts + 1
            /\ attempt' = [attempt EXCEPT ![2].pc = "dial"]
            /\ UNCHANGED connRet
    /\ UNCHANGED <<transactionID, allocVars, engineVars, codecVars, widgetVars, timer,
                   displays, Product>>

\* tryConnect: case result := <-result; return result.l, result.err
SelectResult ==
    /\ connPc = "select"
    /\ result # <<>>
    /\ connRet' = Head(result)
    /\ result' = Tail(result)
    /\ connPc' = "returned"
    /\ UNCHANGED <<transactionID, allocVars, engineVars, codecVars, widgetVars, attempt, timer,
                   nattempts, displays, Product>>

\* tryConnect: case <-time.After(2 * time.Second), taken while no result has
\* been delivered; the caller enters doConnect itself
TryConnectTimeout ==
    /\ connPc = "select"
    /\ result = <<>>
    /\ timer' = TRUE
    /\ connPc' = "retry"
    /\ nattempts' = nattempts + 1
    /\ attempt' = [attempt EXCEPT ![2].pc = "dial"]
    /\ UNCHANGED <<transactionID, allocVars, engineVars, codecVars, widgetVars, result, connRet,
                   displays, Product>>

\* tryConnect: return doConnect(c)
RetryReturn ==
    /\ connPc = "retry"
    /\ attempt[2].pc = "returned"
    /\ connRet' = connectResult(2)
    /\ connPc' = "returned"
    /\ UNCHANGED <<transactionID, allocVars, engineVars, codecVars, widgetVars, attempt, result,
                   timer, nattempts, displays, Product>>

\* the application calls l.SetDisplays() on the handle it was given; an
\* unknown product panics
SetDisplays ==
    /\ connPc = "returned"
    /\ connRet.l # 0
    /\ IF Product \in KnownProducts
       THEN /\ displays' = [displays EXCEPT ![connRet.l] = DisplayTable(Product)]
            /\ UNCHANGED connPc
       ELSE /\ connPc' = "panicked"
            /\ UNCHANGED displays
    /\ UNCHANGED <<transactionID, allocVars, engineVars, codecVars, widgetVars, attempt, result,
                   timer, connRet, nattempts, Product>>

\* l.GetDisplay(name) on the handle returned by the connect: nil for a
\* missing name
GetDisplay(name) ==
    IF connRet.l = 0 THEN Nil
    ELSE IF name \in DOMAIN displays[connRet.l] THEN displays[connRet.l][name]
    ELSE Nil

\* ------------------------------------------------------------ helper objects
IntMin == -(2 ^ (WordBits - 1))
IntMax == 2 ^ (WordBits - 1) - 1
\* the result of an int addition: wrapped into IntMin..IntMax
Wrap(x) == ((x - IntMin) % (2 ^ WordBits)) + IntMin

\* everything of the session that the helper objects leave alone
sessionVars == <<transactionID, allocVars, transactionCallbacks, wire, arrived,
                 loopVars, sendVars, fatal, codecVars, connVars>>

NoOp == [op |-> "none", arg |-> 0, before |-> 0]
NoGesture == [phase |-> "none", downs |-> 0, x0 |-> 0, y0 |-> 0, t0 |-> 0,
              ux |-> 0, uy |-> 0, ut |-> 0]

\* no helper object is set up
WidgetIdle ==
    /\ scene = "none"
    /\ watched = [value |-> 0, notifiers |-> <<>>, calls |-> <<>>]
    /\ lastOp = NoOp
    /\ ikMin = 0
    /\ ikMax = 0
    /\ mbValues = <<>>
    /\ mbTrace = <<>>
    /\ dragDKStarted = FALSE
    /\ dragDKStartX = 0
    /\ dragDKStartY = 0
    /\ dragDKStartTime = 0
    /\ now = 0
    /\ dragLog = <<>>
    /\ gesture = NoGesture
    /\ count = 0
    /\ active = 0
    /\ wActive = <<>>
    /\ wLog = <<>>
    /\ wValue = <<>>
    /\ ctKnob = 0
    /\ wDrew = <<>>
    /\ touchdivisor = 0
    /\ dragstart = 0
    /\ dragv = <<0, 0, 0>>
    /\ tdValues = <<0, 0, 0>>
    /\ tdMin = 0
    /\ tdMax = 0

\* ------------------------------------------------------------- watchedint.go
\* NewWatchedInt(value)
NewWatchedInt(value) == [value |-> value, notifiers |-> <<>>, calls |-> <<>>]

\* AddWatcher(f): w.notifiers = append(w.notifiers, f)
WatchedIntAddWatcher(w, f) == [w EXCEPT !.notifiers = Append(@, f), !.calls = <<>>]

\* a Set that skips the watchers when the value does not change
WatchedIntSet_Dedup(w, value) ==
    IF value = w.value THEN [w EXCEPT !.calls = <<>>]
    ELSE LET w1 == [w EXCEPT !.value = value]
         IN  [w1 EXCEPT !.calls = [i \in 1..Len(w1.notifiers) |->
                                      [f |-> w1.notifiers[i], arg |-> value,
                                       get |-> w1.value]]]

\* Set(value): w.value = value, then f(value) for each notifier in order;
\* each call is recorded with its argument and with what Get returns in it
WatchedIntSet(w, value) ==
    LET w1 == [w EXCEPT !.value = value]
    IN  [w1 EXCEPT !.calls = [i \in 1..Len(w1.notifiers) |->
                                 [f |-> w1.notifiers[i], arg |-> value,
                                  get |-> w1.value]]]

WatchedStarts == {0, 5}
WatchedArgs == {0, 5, -3}

\* the application builds a WatchedInt
WatchedNew(v) ==
    /\ scene = "none"
    /\ scene' = "watched"
    /\ watched' = NewWatchedInt(v)
    /\ lastOp' = [op |-> "New", arg |-> v, before |-> 0]
    /\ UNCHANGED <<sessionVars, bindVars, ikMin, ikMax, mbValues, mbTrace, dragVars,
                   holderVars, dialVars>>

\* the application calls AddWatcher; the watchers are numbered as they come
AddWatcher ==
    /\ scene = "watched"
    /\ Len(watched.notifiers) < MaxWatchers
    /\ watched' = WatchedIntAddWatcher(watched, Len(watched.notifiers) + 1)
    /\ lastOp' = [op |-> "AddWatcher", arg |-> 0, before |-> watched.value]
    /\ UNCHANGED <<sessionVars, bindVars, scene, ikMin, ikMax, mbValues, mbTrace,
                   dragVars, holderVars, dialVars>>

\* the application calls Set(v) on the WatchedInt
WatchedSet(v) ==
    /\ scene = "watched"
    /\ watched' = WatchedIntSet(watched, v)
    /\ lastOp' = [op |-> "Set", arg |-> v, before |-> watched.value]
    /\ UNCHANGED <<sessionVars, bindVars, scene, ikMin, ikMax, mbValues, mbTrace,
                   dragVars, holderVars, dialVars>>

\* ---------------------------------------------------------------- intknob.go
\* IntKnob.Set(v): clamp to [min, max], then watchedint.Set
IntKnobSet(w, min, max, v) ==
    LET v1 == IF v < min THEN min ELSE v
        v2 == IF v1 > max THEN max ELSE v1
    IN  WatchedIntSet(w, v2)

\* an Inc without the upper clamp
IntKnobInc_NoUpperClamp(w, min, max, v) ==
    LET x == Wrap(w.value + v)
        x1 == IF x < min THEN min ELSE x
    IN  WatchedIntSet(w, x1)

\* IntKnob.Inc(v): x := Get(); x += v; clamp to [min, max]; watchedint.Set(x)
IntKnobInc(w, min, max, v) ==
    LET x == Wrap(w.value + v)
        x1 == IF x < min THEN min ELSE x
        x2 == IF x1 > max THEN max ELSE x1
    IN  WatchedIntSet(w, x2)

\* the button binding of IntKnob: if s == ButtonDown { i8k.Set(0) }
IntKnobButton(w, min, max, st) ==
    IF st = ButtonDown THEN IntKnobSet(w, min, max, 0) ELSE w

\* the ranges of the IntKnobs built, and the arguments of Inc and Set
KnobRanges == {<<0, 10>>, <<-5, 5>>, <<3, 8>>, <<-8, -3>>, <<4, 4>>}
IncArgs == {-1, 1, 3, IntMax, IntMin}
SetArgs == {-9, 0, 2, 11, IntMax, IntMin}

\* l.IntKnob(k, min, max, watchedint) over a WatchedInt that has one watcher
\* and a value inside [min, max]: binds the knob k and the button Button(k)
IntKnob(k, min, max, v) ==
    /\ scene = "none"
    /\ scene' = "intknob"
    /\ watched' = WatchedIntAddWatcher(NewWatchedInt(v), 1)
    /\ ikMin' = min
    /\ ikMax' = max
    /\ knobBindings' = knobBindings \cup {k}
    /\ buttonBindings' = buttonBindings \cup {k}
    /\ lastOp' = [op |-> "New", arg |-> v, before |-> 0]
    /\ UNCHANGED <<sessionVars, buttonUpBindings, touchBindings, touchUpBindings,
                   touchDKBindings, mbValues, mbTrace, dragVars, holderVars, dialVars>>

\* the application calls Set(v) on the IntKnob
KnobSet(v) ==
    /\ scene = "intknob"
    /\ watched' = IntKnobSet(watched, ikMin, ikMax, v)
    /\ lastOp' = [op |-> "Set", arg |-> v, before |-> watched.value]
    /\ UNCHANGED <<sessionVars, bindVars, scene, ikMin, ikMax, mbValues, mbTrace,
                   dragVars, holderVars, dialVars>>

\* Inc(d), called by the application or by the knob binding, which Listen
\* calls for a KnobRotate event of the knob
KnobInc(d) ==
    /\ scene = "intknob"
    /\ watched' = IntKnobInc(watched, ikMin, ikMax, d)
    /\ lastOp' = [op |-> "Inc", arg |-> d, before |-> watched.value]
    /\ UNCHANGED <<sessionVars, bindVars, scene, ikMin, ikMax, mbValues, mbTrace,
                   dragVars, holderVars, dialVars>>

\* Listen calls the button binding for a ButtonPress event of Button(k)
KnobButton(st) ==
    /\ scene = "intknob"
    /\ watched' = IntKnobButton(watched, ikMin, ikMax, st)
    /\ lastOp' = [op |-> "Button", arg |-> st, before |-> watched.value]
    /\ UNCHANGED <<sessionVars, bindVars, scene, ikMin, ikMax, mbValues, mbTrace,
                   dragVars, holderVars, dialVars>>

\* ------------------------------------------------------------ multibutton.go
\* MultiButton.GetCur: the index (from 0) of the first entry whose value is
\* the watched value, 0 when there is none
MultiButtonGetCur(values, c) ==
    IF \E i \in 1..Len(values) : values[i] = c
    THEN (CHOOSE i \in 1..Len(values) :
             values[i] = c /\ \A j \in 1..(i - 1) : values[j] # c) - 1
    ELSE 0

\* MultiButton.Advance: c := GetCur() + 1; if c >= len { c = 0 };
\* value.Set(values[c])
MultiButtonAdvance(w, values) ==
    LET c == MultiButtonGetCur(values, w.value) + 1
        c1 == IF c >= Len(values) THEN 0 ELSE c
    IN  WatchedIntSet(w, values[c1 + 1])

MultiValues == {1, 2, 3}

\* NewMultiButton(watchedint, b, im, val) over a fresh WatchedInt: one entry,
\* m.Draw added as watcher, the touch zone b bound, watchedint.Set(val)
NewMultiButton(b, val) ==
    /\ scene = "none"
    /\ scene' = "multibutton"
    /\ mbValues' = <<val>>
    /\ watched' = WatchedIntSet(WatchedIntAddWatcher(NewWatchedInt(0), 1), val)
    /\ touchBindings' = touchBindings \cup {b}
    /\ mbTrace' = <<val>>
    /\ lastOp' = [op |-> "New", arg |-> val, before |-> 0]
    /\ UNCHANGED <<sessionVars, buttonBindings, buttonUpBindings, knobBindings,
                   touchUpBindings, touchDKBindings, ikMin, ikMax, dragVars,
                   holderVars, dialVars>>

\* MultiButton.Add(im, value); the trace of touches starts again
MultiButtonAdd(value) ==
    /\ scene = "multibutton"
    /\ Len(mbValues) < MaxEntries
    /\ mbValues' = Append(mbValues, value)
    /\ mbTrace' = <<watched.value>>
    /\ lastOp' = [op |-> "Add", arg |-> value, before |-> watched.value]
    /\ UNCHANGED <<sessionVars, bindVars, scene, watched, ikMin, ikMax, dragVars,
                   holderVars, dialVars>>

\* Listen calls the touch binding for a Touch event in the zone b: m.Advance()
MultiButtonTouch ==
    /\ scene = "multibutton"
    /\ Len(mbTrace) < MaxTouches + 1
    /\ watched' = MultiButtonAdvance(watched, mbValues)
    /\ mbTrace' = Append(mbTrace, MultiButtonAdvance(watched, mbValues).value)
    /\ lastOp' = [op |-> "Touch", arg |-> 0, before |-> watched.value]
    /\ UNCHANGED <<sessionVars, bindVars, scene, ikMin, ikMax, mbValues, dragVars,
                   holderVars, dialVars>>

\* ------------------------------------------------------------ displayknob.go
\* a click test that also rejects a gesture of exactly 500 ms
isClick_Strict(duration, x, y) ==
    IF duration >= 500 THEN FALSE
    ELSE IF x > 20 \/ x < -20 THEN FALSE
    ELSE IF y > 20 \/ y < -20 THEN FALSE
    ELSE TRUE

\* isClick(duration, x, y), the duration in milliseconds
isClick(duration, x, y) ==
    IF duration > 500 THEN FALSE
    ELSE IF x > 20 \/ x < -20 THEN FALSE
    ELSE IF y > 20 \/ y < -20 THEN FALSE
    ELSE TRUE

\* a touch function that starts over at every touch-down
dragDKTouch_Restart(st, b, x, y, t) ==
    IF b = ButtonDown
    THEN [started |-> TRUE, startX |-> x, startY |-> y, startTime |-> t,
          calls |-> <<>>]
    ELSE IF ~st.started THEN [st EXCEPT !.calls = <<>>]
    ELSE LET duration == t - st.startTime
             dx == x - st.startX
             dy == y - st.startY
         IN  [st EXCEPT !.started = FALSE,
                        !.calls = IF isClick(duration, dx, dy)
                                  THEN <<[event |-> DragClick, x |-> x, y |-> y]>>
                                  ELSE <<[event |-> DragDone, x |-> dx, y |-> dy]>>]

\* the function RegisterDragDisplayKnobWatcher binds with BindTouchCT, called
\* at time t on st = (l.dragDKStarted, StartX, StartY, StartTime); calls are
\* the calls of l.dragDKBinding it makes
dragDKTouch(st, b, x, y, t) ==
    IF ~st.started
    THEN IF b = ButtonDown
         THEN [started |-> TRUE, startX |-> x, startY |-> y, startTime |-> t,
               calls |-> <<>>]
         ELSE [st EXCEPT !.calls = <<>>]
    ELSE IF b = ButtonDown THEN [st EXCEPT !.calls = <<>>]
    ELSE IF b = ButtonUp
    THEN LET duration == t - st.startTime
             dx == x - st.startX
             dy == y - st.startY
         IN  [st EXCEPT !.started = FALSE,
                        !.calls = IF isClick(duration, dx, dy)
                                  THEN <<[event |-> DragClick, x |-> x, y |-> y]>>
                                  ELSE <<[event |-> DragDone, x |-> dx, y |-> dy]>>]
    ELSE [st EXCEPT !.calls = <<>>]

\* a watcher that does not wrap the index
HolderWatch_NoWrap(act, cnt, flags, b, x, y) ==
    IF b = DragDone /\ x < -20
    THEN [active |-> act + 1,
          wActive |-> [i \in DOMAIN flags \cup {act + 1} |->
                          IF i = act + 1 THEN TRUE
                          ELSE IF i = act THEN FALSE ELSE flags[i]],
          wLog |-> <<[op |-> "Deactivate", i |-> act],
                     [op |-> "Activate", i |-> act + 1],
                     [op |-> "NavBar", i |-> act + 1]>>]
    ELSE IF b = DragDone /\ x > 20
    THEN [active |-> act - 1,
          wActive |-> [i \in DOMAIN flags \cup {act - 1} |->
                          IF i = act - 1 THEN TRUE
                          ELSE IF i = act THEN FALSE ELSE flags[i]],
          wLog |-> <<[op |-> "Deactivate", i |-> act],
                     [op |-> "Activate", i |-> act - 1],
                     [op |-> "NavBar", i |-> act - 1]>>]
    ELSE [active |-> act, wActive |-> flags, wLog |-> <<>>]

\* the watcher WidgetHolder registers, called with (b, x, y) on the holder's
\* active index, count and the widgets' active flags; wLog lists its calls of
\* Deactivate, Activate and drawWidgetHolderNavBar in order
HolderWatch(act, cnt, flags, b, x, y) ==
    IF b = DragClick THEN [active |-> act, wActive |-> flags, wLog |-> <<>>]
    ELSE IF b = DragDone
    THEN IF x < -20
         THEN LET a1 == act + 1
                  a2 == IF a1 >= cnt THEN 0 ELSE a1
              IN  [active |-> a2,
                   wActive |-> [flags EXCEPT ![act] = FALSE, ![a2] = TRUE],
                   wLog |-> <<[op |-> "Deactivate", i |-> act],
                              [op |-> "Activate", i |-> a2],
                              [op |-> "NavBar", i |-> a2]>>]
         ELSE IF x > 20
         THEN LET a1 == act - 1
                  a2 == IF a1 < 0 THEN cnt - 1 ELSE a1
              IN  [active |-> a2,
                   wActive |-> [flags EXCEPT ![act] = FALSE, ![a2] = TRUE],
                   wLog |-> <<[op |-> "Deactivate", i |-> act],
                              [op |-> "Activate", i |-> a2],
                              [op |-> "NavBar", i |-> a2]>>]
         ELSE [active |-> act, wActive |-> flags, wLog |-> <<>>]
    ELSE [active |-> act, wActive |-> flags, wLog |-> <<>>]

\* DisplayKnob.Inc(v) on a value: add, clamp to [min, max], Set
DisplayKnobInc(value, min, max, v) ==
    LET x == Wrap(value + v)
        x1 == IF x < min THEN min ELSE x
    IN  IF x1 > max THEN max ELSE x1

\* an Activate that leaves the knob bound as it was
ActivateKnob_Keep(bound, i) == bound

\* widgets[i].Activate: l.DisplayKnob(w.Min, w.Max, w.Value) binds CTKnob to
\* a DisplayKnob over the value of widget i
ActivateKnob(bound, i) == i

\* widgets[i].Draw: the widgets that draw, none unless widget i has the focus
WidgetDraws(flags, i) == IF flags[i] THEN <<i>> ELSE <<>>

\* the widgets handed to WidgetHolder: NewDKAnalogWidget(Min, Max,
\* NewWatchedInt(Value), name), each with a WatchedInt of its own
\* and a range of its own: [-1, 1], [0, 1], [1, 3], ...
HolderWidgets ==
    [k \in 1..MaxWidgets |->
        [Min |-> k - 2, Max |-> k - 1 + (k % 2), Value |-> k - 2]]
KnobTurns == {-1, 1, 3}

\* l.WidgetHolder(widgets) with n DKAnalogWidgets: widgets[0].Activate, which
\* sets its flag and binds CTKnob through l.DisplayKnob; then
\* RegisterDragDisplayKnobWatcher, which binds the touch function of the
\* rotary display; then the navigation bar.  The frames that Draw sends are
\* left to the transport.
WidgetHolder(n) ==
    /\ scene = "none"
    /\ scene' = "dial"
    /\ count' = n
    /\ active' = 0
    /\ wActive' = [i \in 0..(n - 1) |-> i = 0]
    /\ wLog' = <<[op |-> "Activate", i |-> 0], [op |-> "NavBar", i |-> 0]>>
    /\ wValue' = [i \in 0..(n - 1) |-> HolderWidgets[i + 1].Value]
    /\ ctKnob' = ActivateKnob(ctKnob, 0)
    /\ wDrew' = WidgetDraws([i \in 0..(n - 1) |-> i = 0], 0)
    /\ knobBindings' = knobBindings \cup {CTKnob}
    /\ touchDKBindings' = TRUE
    /\ lastOp' = [op |-> "New", arg |-> n, before |-> 0]
    /\ UNCHANGED <<sessionVars, buttonBindings, buttonUpBindings, touchBindings,
                   touchUpBindings, watched, ikMin, ikMax, mbValues, mbTrace,
                   dragVars, dialVars>>

\* the points of the rotary display where touches begin and end, and the
\* steps of the clock
DownPoints == {<<100, 100>>, <<110, 110>>}
UpPoints == {<<100, 100>>, <<105, 97>>, <<125, 100>>, <<79, 100>>, <<100, 121>>,
             <<120, 80>>, <<80, 120>>}
Ticks == {100, 201}

\* time passes
Tick(d) ==
    /\ scene = "dial"
    /\ now + d <= MaxClock
    /\ now' = now + d
    /\ UNCHANGED <<sessionVars, bindVars, scene, watched, lastOp, ikMin, ikMax,
                   mbValues, mbTrace, dragDKStarted, dragDKStartX, dragDKStartY,
                   dragDKStartTime, dragLog, gesture, holderVars, dialVars>>

\* Listen calls l.touchDKBindings(b, x, y) for a TouchCT (b = ButtonDown) or
\* TouchEndCT (b = ButtonUp) event; the watcher it calls is WidgetHolder's
DragTouch(b, x, y) ==
    /\ scene = "dial"
    /\ touchDKBindings
    /\ (b = ButtonDown /\ gesture.phase = "open") => gesture.downs < MaxDowns
    /\ LET st == [started |-> dragDKStarted, startX |-> dragDKStartX,
                  startY |-> dragDKStartY, startTime |-> dragDKStartTime,
                  calls |-> <<>>]
           r == dragDKTouch(st, b, x, y, now)
           h == IF r.calls = <<>>
                THEN [active |-> active, wActive |-> wActive, wLog |-> <<>>]
                ELSE HolderWatch(active, count, wActive, r.calls[1].event,
                                 r.calls[1].x, r.calls[1].y)
       IN  /\ dragDKStarted' = r.started
           /\ dragDKStartX' = r.startX
           /\ dragDKStartY' = r.startY
           /\ dragDKStartTime' = r.startTime
           /\ dragLog' = IF b = ButtonDown /\ gesture.phase # "open"
                         THEN r.calls ELSE dragLog \o r.calls
           /\ active' = h.active
           /\ wActive' = h.wActive
           /\ wLog' = h.wLog
           /\ ctKnob' = IF h.wLog = <<>> THEN ctKnob ELSE ActivateKnob(ctKnob, h.active)
           /\ wDrew' = IF h.wLog = <<>> THEN <<>> ELSE WidgetDraws(h.wActive, h.active)
    /\ gesture' = IF b = ButtonDown
                  THEN IF gesture.phase = "open"
                       THEN [gesture EXCEPT !.downs = @ + 1]
                       ELSE [phase |-> "open", downs |-> 1, x0 |-> x, y0 |-> y,
                             t0 |-> now, ux |-> 0, uy |-> 0, ut |-> 0]
                  ELSE IF gesture.phase = "open"
                       THEN [gesture EXCEPT !.phase = "done", !.ux = x, !.uy = y,
                                            !.ut = now]
                       ELSE [NoGesture EXCEPT !.phase = "stray"]
    /\ lastOp' = [op |-> IF b = ButtonDown THEN "TouchCT" ELSE "TouchEndCT",
                  arg |-> b, before |-> active]
    /\ UNCHANGED <<sessionVars, bindVars, scene, watched, ikMin, ikMax, mbValues,
                   mbTrace, now, count, wValue, dialVars>>

\* Listen reads a KnobRotate frame of CTKnob and calls its binding, the
\* closure of the last l.DisplayKnob call, which calls Inc(v) on the
\* DisplayKnob of widget ctKnob; the widgets register no watcher
HolderKnob(v) ==
    /\ scene = "dial"
    /\ CTKnob \in knobBindings
    /\ wValue' = [wValue EXCEPT ![ctKnob] =
                     DisplayKnobInc(@, HolderWidgets[ctKnob + 1].Min,
                                    HolderWidgets[ctKnob + 1].Max, v)]
    /\ wDrew' = <<>>
    /\ lastOp' = [op |-> "KnobRotate", arg |-> v, before |-> wValue]
    /\ UNCHANGED <<sessionVars, bindVars, scene, watched, ikMin, ikMax, mbValues,
                   mbTrace, dragVars, count, active, wActive, wLog, ctKnob, dialVars>>

\* the application calls widgets[i].Draw(l)
WidgetDraw(i) ==
    /\ scene = "dial"
    /\ i < count
    /\ wDrew' = WidgetDraws(wActive, i)
    /\ lastOp' = [op |-> "Draw", arg |-> i, before |-> active]
    /\ UNCHANGED <<sessionVars, bindVars, scene, watched, ikMin, ikMax, mbValues,
                   mbTrace, dragVars, count, active, wActive, wLog, wValue, ctKnob,
                   dialVars>>

\* ------------------------------------------------------------- touchdials.go
\* Go's integer division, which truncates toward zero (b # 0)
Quot(a, b) ==
    IF (a >= 0) = (b > 0) THEN a \div b
    ELSE -((-a) \div b)

\* int(float64(display.Height()) / float64(max - min)) for min < max
TouchDivisor(height, min, max) == height \div (max - min)

\* the three knobs after Knob1.Set(dragv1 + delta), Knob2.Set(dragv2 + delta),
\* Knob3.Set(dragv3 + delta)
TouchDialSet(starts, delta, min, max) ==
    [i \in 1..3 |-> IntKnobSet(NewWatchedInt(0), min, max, starts[i] + delta).value]

\* the closure bound with BindTouch, on a sample at y while a drag is going on
TouchDialSample(ds, y, divisor, starts, values, min, max) ==
    TouchDialSet(starts, Quot(ds - y, divisor), min, max)

NoDrag == 65535
DialHeight == DisplayTable("0007")["left"].height
DialRanges == {<<0, 3>>, <<-2, 2>>, <<0, 100>>, <<0, MaxDialSpan>>}
DialStarts == {<<0, 0, 0>>, <<0, 1, 2>>}
DialXs == {10, 100}
DialYs == {0, 100, 101, 269}

\* l.NewTouchDial(l.GetDisplay("left"), w1, w2, w3, min, max) over three
\* WatchedInts with the values v: three IntKnobs, which bind the knobs and
\* buttons 1 to 3, and the bindings for touch and touch-up on the left strip
NewTouchDial(min, max, v) ==
    /\ Alive
    /\ scene = "none"
    /\ scene' = "touchdial"
    /\ touchdivisor' = TouchDivisor(DialHeight, min, max)
    /\ tdMin' = min
    /\ tdMax' = max
    /\ tdValues' = v
    /\ dragv' = <<0, 0, 0>>
    /\ dragstart' = NoDrag
    /\ knobBindings' = knobBindings \cup {Knob1, Knob2, Knob3}
    /\ buttonBindings' = buttonBindings \cup {Knob1, Knob2, Knob3}
    /\ touchBindings' = touchBindings \cup {TouchLeft}
    /\ touchUpBindings' = touchUpBindings \cup {TouchLeft}
    /\ lastOp' = [op |-> "New", arg |-> 0, before |-> 0]
    /\ UNCHANGED <<sessionVars, buttonUpBindings, touchDKBindings, watched, ikMin, ikMax,
                   mbValues, mbTrace, dragVars, holderVars>>

\* Listen reads a Touch frame with the coordinates (x, y) and calls the
\* binding of touchCoordToButton(x, y); the division by a zero divisor
\* panics in the goroutine of Listen
DialTouch(x, y) ==
    /\ Alive
    /\ scene = "touchdial"
    /\ lastOp' = [op |-> "Touch", arg |-> y, before |-> x]
    /\ IF touchCoordToButton(x, y) \notin touchBindings
       THEN UNCHANGED <<dragstart, dragv, tdValues, loopPc>>
       ELSE IF dragstart = NoDrag
       THEN /\ dragv' = tdValues
            /\ dragstart' = y
            /\ UNCHANGED <<tdValues, loopPc>>
       ELSE IF touchdivisor = 0
       THEN /\ loopPc' = "panicked"
            /\ UNCHANGED <<dragstart, dragv, tdValues>>
       ELSE /\ tdValues' = TouchDialSample(dragstart, y, touchdivisor, dragv, tdValues,
                                           tdMin, tdMax)
            /\ UNCHANGED <<dragstart, dragv, loopPc>>
    /\ UNCHANGED <<transactionID, allocVars, transactionCallbacks, wire, arrived, cur,
                   curCb, running, fired, nread, dropped, readErr, invoked, sendVars,
                   fatal, codecVars, connVars, bindVars, scene, watched, ikMin, ikMax,
                   mbValues, mbTrace, dragVars, holderVars, touchdivisor, tdMin, tdMax>>

\* Listen reads a TouchEnd frame with the coordinates (x, y) and calls the
\* touch-up binding of touchCoordToButton(x, y)
DialTouchEnd(x, y) ==
    /\ Alive
    /\ scene = "touchdial"
    /\ lastOp' = [op |-> "TouchEnd", arg |-> y, before |-> x]
    /\ dragstart' = IF touchCoordToButton(x, y) \in touchUpBindings
                    THEN NoDrag ELSE dragstart
    /\ UNCHANGED <<sessionVars, bindVars, scene, watched, ikMin, ikMax, mbValues,
                   mbTrace, dragVars, holderVars, touchdivisor, tdMin, tdMax, dragv,
                   tdValues>>

\* --------------------------------------------------------- specifications
\* the session after doConnect: zero counter, empty maps, Listen not started
InitEngine ==
    /\ transactionID = 0
    /\ transactionMutex = 0
    /\ allocPc = [c \in Callers |-> "idle"]
    /\ allocT = [c \in Callers |-> 0]
    /\ issued = <<>>
    /\ transactionCallbacks = <<>>
    /\ buttonBindings = {}
    /\ buttonUpBindings = {}
    /\ knobBindings = {}
    /\ touchBindings = {}
    /\ touchUpBindings = {}
    /\ touchDKBindings = FALSE
    /\ wire = <<>>
    /\ arrived = 0
    /\ loopPc = "idle"
    /\ cur = NoFrame
    /\ curCb = Nil
    /\ running = {}
    /\ fired = {}
    /\ nread = 0
    /\ dropped = FALSE
    /\ readErr = FALSE
    /\ invoked = [i \in 1..(MaxMsgs + 1) |-> 0]
    /\ snd = [s \in Senders |-> IdleSender]
    /\ nalloc = 0
    /\ chans = [i \in MsgIds |-> "none"]
    /\ timedOut = {}
    /\ fatal = FALSE

\* no call of the codec, the zone mapping or Draw is under study
CodecIdle ==
    /\ task = NoTask
    /\ taskPc = "start"
    /\ buf = <<>>
    /\ parsed = NotParsed
    /\ zone = 0
    /\ written = <<>>

Init ==
    /\ InitEngine
    /\ CodecIdle
    /\ ConnIdle
    /\ WidgetIdle
    /\ Product = "0004"

\* one call with its arguments drawn from Tasks
InitCodec ==
    /\ InitEngine
    /\ ConnIdle
    /\ WidgetIdle
    /\ Product = "0004"
    /\ task \in Tasks
    /\ taskPc = "start"
    /\ buf = IF task.fn = "parse" THEN task.b ELSE <<>>
    /\ parsed = NotParsed
    /\ zone = 0
    /\ written = <<>>

NextCodec ==
    \/ Encode
    \/ Parse
    \/ CallTouchCoordToButton
    \/ DrawWriteFramebuff
    \/ DrawDraw

SpecCodec == InitCodec /\ [][NextCodec]_vars

NextDispatch ==
    \/ BindButton(Circle)
    \/ BindButtonUp(Circle)
    \/ BindKnob(Knob1)
    \/ \E f \in DispatchFrames : DeviceFrame(f)
    \/ ListenStart
    \/ ListenRead
    \/ ListenBindingReturn

SpecDispatch == Init /\ [][NextDispatch]_vars

\* a connect on a device of any product
InitConnect ==
    /\ InitEngine
    /\ CodecIdle
    /\ ConnIdle
    /\ WidgetIdle
    /\ Product \in Products

NextConnect ==
    \/ TryConnect
    \/ \E a \in Attempts : DoConnectDial(a)
    \/ \E a \in Attempts : DoConnectFont(a)
    \/ \E a \in Attempts : DoConnectSend(a)
    \/ \E a \in Attempts : DoConnectSendWithCallback(a)
    \/ GoroutineSend
    \/ SelectResult
    \/ TryConnectTimeout
    \/ RetryReturn
    \/ SetDisplays

SpecConnect == InitConnect /\ [][NextConnect]_vars

\* the helper objects: one of them is built and then used
NextWidgets ==
    \/ \E v \in WatchedStarts : WatchedNew(v)
    \/ AddWatcher
    \/ \E v \in WatchedArgs : WatchedSet(v)
    \/ \E r \in KnobRanges : \E v \in {r[1], r[2]} : IntKnob(Knob1, r[1], r[2], v)
    \/ \E v \in SetArgs : KnobSet(v)
    \/ \E d \in IncArgs : KnobInc(d)
    \/ \E st \in {ButtonDown, ButtonUp} : KnobButton(st)
    \/ \E v \in MultiValues : NewMultiButton(Touch1, v)
    \/ \E v \in MultiValues : MultiButtonAdd(v)
    \/ MultiButtonTouch
    \/ \E n \in 1..MaxWidgets : WidgetHolder(n)
    \/ \E d \in Ticks : Tick(d)
    \/ \E p \in DownPoints : DragTouch(ButtonDown, p[1], p[2])
    \/ \E p \in UpPoints : DragTouch(ButtonUp, p[1], p[2])

SpecWidgets == Init /\ [][NextWidgets]_vars

\* a WidgetHolder, swipes and clicks on the rotary display, rotations of the
\* large knob and calls of Draw
HolderDowns == {<<100, 100>>}
HolderUps == {<<100, 100>>, <<125, 100>>, <<79, 100>>}
NextHolder ==
    \/ \E n \in 1..MaxWidgets : WidgetHolder(n)
    \/ \E p \in HolderDowns : DragTouch(ButtonDown, p[1], p[2])
    \/ \E p \in HolderUps : DragTouch(ButtonUp, p[1], p[2])
    \/ \E v \in KnobTurns : HolderKnob(v)
    \/ \E i \in 0..(MaxWidgets - 1) : WidgetDraw(i)

SpecHolder == Init /\ [][NextHolder]_vars

\* a bank of touch dials on the left strip, and touches that begin, move and
\* end on and off the strip
NextTouchDial ==
    \/ \E r \in DialRanges : \E v \in DialStarts : NewTouchDial(r[1], r[2], v)
    \/ \E x \in DialXs : \E y \in DialYs : DialTouch(x, y)
    \/ \E x \in DialXs : \E y \in DialYs : DialTouchEnd(x, y)

SpecTouchDial == Init /\ [][NextTouchDial]_vars


\* a request with a callback, then fire-and-forget messages until the
\* transaction IDs come round again, then a second request with a callback,
\* and replies that carry the ID 1
NextReuse ==
    \/ \E s \in Senders : NewMessage(s, "SendWithCallback")
    \/ \E s \in Senders : NewMessageAgain(s)
    \/ \E s \in Senders : RegisterBegin(s)
    \/ \E s \in Senders : RegisterEnd(s)
    \/ \E s \in Senders : Send(s)
    \/ \E s \in Senders : SendFireAndForget(s)
    \/ DeviceFrame(asBytes(Version, 1, <<1, 2, 3>>))
    \/ ListenStart
    \/ ListenRead
    \/ ListenCallbackReturn

SpecReuse == Init /\ [][NextReuse]_vars

NextAlloc ==
    \E c \in Callers :
        CallNewTransactionID(c) \/ Lock(c) \/ Load(c) \/ Store(c) \/ Unlock(c)

SpecAlloc == Init /\ [][NextAlloc]_vars

Next ==
    \/ BindTouch(TouchLeft)
    \/ \E f \in InFrames : DeviceFrame(f)
    \/ ListenStart
    \/ ListenRead
    \/ ListenReadError
    \/ ListenCallbackReturn
    \/ ListenBindingReturn
    \/ WaitCallbackPanic
    \/ \E s \in Senders, op \in SendOps : NewMessage(s, op)
    \/ \E s \in Senders : RegisterBegin(s)
    \/ \E s \in Senders : RegisterEnd(s)
    \/ \E s \in Senders : Send(s)
    \/ \E s \in Senders : SelectRecv(s)
    \/ \E s \in Senders : SelectTimeout(s)
    \/ ConcurrentMapAccess

Spec == Init /\ [][Next]_vars

\* ------------------------------------------------------------------ claims
\* C1: starting from counter 0, the k-th allocation (k >= 1) yields
\* ((k-1) mod 255) + 1; so it is never 0, the 255th is 255 and the 256th is 1.
C1_KthAllocation ==
    LET k == Len(issued)
    IN  k >= 1 => /\ issued[k] = ((k - 1) % 255) + 1
                  /\ issued[k] \in 1..255

\* C1 witness: the 256th allocation has been made, right after the value 255.
C1_Witness ==
    /\ Len(issued) = 256
    /\ issued[255] = 255
    /\ issued[256] = 1

\* C10: under every interleaving of the callers, the value just issued differs
\* from each of the 254 values issued before it (no duplicate among any 255
\* consecutive allocations), and after the first allocation neither the
\* counter nor an issued value is 0.
C10_AtomicIssuance ==
    LET n == Len(issued)
    IN  n >= 1 =>
          /\ transactionID # 0
          /\ issued[n] # 0
          /\ \A i \in (IF n > 254 THEN n - 254 ELSE 1)..(n - 1) : issued[i] # issued[n]

\* C10 witness: past the wrap, one caller is inside the critical section
\* while another stands at the Lock statement.
C10_Witness ==
    /\ Len(issued) >= 255
    /\ \E c, d \in Callers :
          /\ c # d
          /\ allocPc[c] = "loaded"
          /\ allocPc[d] = "lock"

\* C2: a callback registered by SendWithCallback is called at most once, only
\* by the receive loop and only for a frame whose non-zero transaction ID is
\* the one it is registered under; the first frame read with that ID calls
\* it, and a later frame with the same ID does not call it again.
C2_CallbackOnce ==
    [][\A i \in MsgIds :
         /\ invoked'[i] <= 1
         /\ invoked'[i] # invoked[i] =>
              /\ loopPc = "read"
              /\ loopPc' = "callback"
              /\ cur'.b[3] # 0
              /\ Lookup(transactionCallbacks, cur'.b[3]).id = i
              /\ curCb'.id = i
         /\ ( /\ loopPc = "read"
              /\ nread' = nread + 1
              /\ Len(Head(wire).b) >= 3
              /\ Head(wire).b[3] # 0
              /\ Lookup(transactionCallbacks, Head(wire).b[3]).id = i )
            => invoked[i] = 0 /\ invoked'[i] = 1
      ]_vars

\* C2 witness: a callback has been called and its entry cleared, and another
\* frame carrying the same transaction ID is the next one to be read.
C2_Witness ==
    /\ loopPc = "read"
    /\ wire # <<>>
    /\ Len(Head(wire).b) >= 3
    /\ Head(wire).b[3] \in DOMAIN transactionCallbacks
    /\ transactionCallbacks[Head(wire).b[3]] = Nil
    /\ \E s \in Senders :
         /\ snd[s].txn = Head(wire).b[3]
         /\ snd[s].op = "SendWithCallback"
         /\ invoked[snd[s].id] = 1

\* C3 (as claimed): while the receive loop is inside the callback of a
\* correlated response for transaction ID k, the table holds no entry for k.
C3_ClearedBeforeCallback ==
    loopPc \in {"callback", "sent"} =>
        Lookup(transactionCallbacks, cur.b[3]) = Nil

\* C4 (as claimed): once sendAndWait has returned the timeout error, the
\* table holds no callback for the transaction ID of its request.
C4_TimeoutLeavesNoEntry ==
    \A s \in Senders :
        (snd[s].pc = "idle" /\ snd[s].op = "sendAndWait" /\ snd[s].ret = "timeout")
            => Lookup(transactionCallbacks, snd[s].txn) = Nil

\* C5 (as claimed): a frame that arrives after sendAndWait has returned the
\* timeout error calls nothing of the finished call, and the receive loop
\* never aborts inside the subscription of a finished call.
C5_LateFrameHarmless ==
    [][\A t \in timedOut :
         /\ ~( /\ loopPc = "read"
               /\ loopPc' = "callback"
               /\ curCb'.kind = "wait"
               /\ curCb'.id = t.id
               /\ cur'.n > t.at )
         /\ ~( /\ loopPc # "panicked"
               /\ loopPc' = "panicked"
               /\ curCb'.kind = "wait"
               /\ curCb'.id = t.id )
      ]_vars

\* C6 (as claimed): a fire-and-forget Send whose transport write failed has
\* returned a non-nil error.
C6_WriteErrorSurfaced ==
    \A s \in Senders :
        (snd[s].pc = "idle" /\ snd[s].op = "Send" /\ snd[s].write = "failed")
            => snd[s].ret = "err"

\* C7: a frame delivered to a transaction callback is delivered to it only:
\* nothing else, in particular no button, knob or touch binding, is called
\* or running for that frame.
C7_CallbackOnly ==
    \A g \in fired :
        g.kind \in CallbackKinds => (fired = {g} /\ running \subseteq {g})

\* C7 witness: a touch frame for a zone with a touch binding, carrying a
\* non-zero transaction ID with a registered callback, is inside that callback.
C7_Witness ==
    /\ loopPc = "callback"
    /\ cur.b[2] = Touch
    /\ cur.b[3] # 0
    /\ touchCoordToButton(Uint16(cur.b[5], cur.b[6]), Uint16(cur.b[7], cur.b[8]))
         \in touchBindings
    /\ fired = {curCb}

\* C8: a read error stops the receive loop: the step that reports it leaves
\* Listen panicked, and from then on no frame is read and nothing is called.
C8_ReadErrorStops ==
    [][ /\ readErr' => loopPc' = "panicked"
        /\ readErr => (nread' = nread /\ invoked' = invoked /\ running' = running)
      ]_vars

\* C8 witness: the read failed after a frame had been processed, and a frame
\* that will never be read is waiting in the transport.
C8_Witness ==
    /\ readErr
    /\ loopPc = "panicked"
    /\ nread >= 1
    /\ wire # <<>>

\* C9: frames are processed in arrival order and one at a time: the frame
\* being dispatched is the nread-th to have arrived, the waiting frames are
\* the following arrivals in order, at most one function called by the loop
\* is running, and none is running when the loop is at its read.
C9_SerialDispatch ==
    /\ Cardinality(running) <= 1
    /\ loopPc \in {"idle", "read"} => running = {}
    /\ cur # NoFrame => cur.n = nread
    /\ \A i \in 1..Len(wire) : wire[i].n = nread + i

\* C9 witness: the function called for a frame is running while the frame
\* that arrived after it waits in the transport.
C9_Witness ==
    /\ loopPc \in {"callback", "binding"}
    /\ running = {curCb}
    /\ cur.n = nread
    /\ wire # <<>>
    /\ Head(wire).n = nread + 1

\* C11: for every message type, transaction ID and payload of at most 252
\* bytes, ParseMessage of the bytes produced by asBytes gives back the same
\* type, transaction ID and payload.
C11_RoundTrip ==
    (task.fn = "codec" /\ taskPc = "done" /\ Len(task.data) <= 252) =>
        /\ parsed # IndexPanic
        /\ parsed.messageType = task.messageType
        /\ parsed.transactionID = task.transactionID
        /\ parsed.data = task.data

\* C11 witness: a message with a 252-byte payload and transaction ID 255 has
\* been encoded and decoded.
C11_Witness ==
    /\ task.fn = "codec"
    /\ taskPc = "done"
    /\ Len(task.data) = 252
    /\ task.transactionID = 255
    /\ Len(buf) = 255

\* C12: the length byte written by NewMessage is min(3 + len(payload), 255)
\* for every payload length, and ParseMessage takes every byte after the
\* third as payload whatever the length byte holds.
C12_LengthByte ==
    /\ (task.fn = "codec" /\ taskPc \in {"encoded", "done"}) =>
          buf[1] = (IF 3 + Len(task.data) < 255 THEN 3 + Len(task.data) ELSE 255)
    /\ (task.fn \in {"codec", "parse"} /\ taskPc = "done" /\ Len(buf) >= 3) =>
          /\ parsed # IndexPanic
          /\ parsed.length = buf[1]
          /\ Len(parsed.data) = Len(buf) - 3
          /\ \A i \in 1..(Len(buf) - 3) : parsed.data[i] = buf[i + 3]

\* C12 witness: a payload longer than 252 bytes was encoded with length byte
\* 255 and decoded in full.
C12_Witness ==
    /\ task.fn = "codec"
    /\ taskPc = "done"
    /\ Len(task.data) > 252
    /\ buf[1] = 255
    /\ parsed.data = task.data

\* C13 (as claimed): ParseMessage of a buffer of 0, 1 or 2 bytes returns an
\* error and no message; it neither returns a message nor panics.
C13_ShortBufferError ==
    (task.fn = "parse" /\ taskPc = "done" /\ Len(buf) < 3) => parsed = ParseError

\* C14: a zero-length frame is never dispatched: the step that reads it
\* calls no callback and no binding and leaves the loop at its read.
C14_ZeroLengthDropped ==
    [][ ( /\ loopPc = "read"
          /\ nread' = nread + 1
          /\ Head(wire).b = <<>> )
        => /\ loopPc' = "read"
           /\ fired' = {}
           /\ running' = {}
           /\ invoked' = invoked
           /\ transactionCallbacks' = transactionCallbacks
      ]_vars

\* C14 witness: the loop has skipped a zero-length frame as its first frame,
\* with a callback registered and a touch binding set, and is back at its
\* read with the next frame waiting.
C14_Witness ==
    /\ dropped
    /\ nread = 1
    /\ loopPc = "read"
    /\ wire # <<>>
    /\ TouchLeft \in touchBindings
    /\ \E k \in DOMAIN transactionCallbacks : transactionCallbacks[k] # Nil

\* C15: the knob binding called for a KnobRotate frame receives -1 for the
\* wire magnitude 255 and the magnitude itself for every other value 0..254
\* (1 gives +1, 0 gives 0, and 128..254 are not read as negative numbers).
C15_KnobDelta ==
    [][ ( /\ loopPc = "read"
          /\ nread' = nread + 1
          /\ Len(Head(wire).b) >= 5
          /\ Head(wire).b[2] = KnobRotate
          /\ Head(wire).b[3] = 0
          /\ Head(wire).b[4] \in knobBindings )
        => LET v == Head(wire).b[5]
           IN  /\ loopPc' = "binding"
               /\ curCb'.kind = "knob"
               /\ curCb'.id = Head(wire).b[4]
               /\ v = 255 => curCb'.arg = <<-1>>
               /\ v \in 0..254 => curCb'.arg = <<v>>
      ]_vars

\* C15 witness: the knob binding is running for a frame with magnitude 254
\* and has received 254.
C15_Witness ==
    /\ loopPc = "binding"
    /\ curCb.kind = "knob"
    /\ cur.b[5] = 254
    /\ curCb.arg = <<254>>

\* C16: a ButtonPress frame for button b with status down calls only the
\* down-binding of b, with status up only the up-binding of b, each once;
\* when the matching binding is not registered, or the status is neither,
\* nothing is called and the loop stays at its read.
C16_ButtonDispatch ==
    [][ ( /\ loopPc = "read"
          /\ nread' = nread + 1
          /\ Len(Head(wire).b) >= 5
          /\ Head(wire).b[2] = ButtonPress
          /\ Head(wire).b[3] = 0 )
        => LET b == Head(wire).b[4]
               st == Head(wire).b[5]
           IN  IF st = ButtonDown /\ b \in buttonBindings
               THEN /\ fired' = {[kind |-> "buttonDown", id |-> b, arg |-> <<st>>]}
                    /\ running' = fired'
                    /\ loopPc' = "binding"
               ELSE IF st = ButtonUp /\ b \in buttonUpBindings
               THEN /\ fired' = {[kind |-> "buttonUp", id |-> b, arg |-> <<st>>]}
                    /\ running' = fired'
                    /\ loopPc' = "binding"
               ELSE /\ fired' = {}
                    /\ running' = {}
                    /\ loopPc' = "read"
      ]_vars

\* C16 witness: the up-binding of a button that also has a down-binding is
\* running for a frame with status up.
C16_Witness ==
    /\ loopPc = "binding"
    /\ curCb.kind = "buttonUp"
    /\ cur.b[5] = ButtonUp
    /\ curCb.id \in buttonBindings
    /\ fired = {curCb}

\* C17: touchCoordToButton(x, y) is the left strip for x < 60, the right
\* strip for x >= 420, and else Touch1 + floor((x-60)/90) + 4*floor(y/90);
\* the listed points map as listed, and every point with 60 <= x < 420 and
\* 0 <= y < 270 maps to one of the 12 grid zones.
C17_ZoneMapping ==
    (task.fn = "touch" /\ taskPc = "done") =>
        LET x == task.x
            y == task.y
        IN  /\ x < 60 => zone = TouchLeft
            /\ x >= 420 => zone = TouchRight
            /\ (x >= 60 /\ x < 420) =>
                  zone = Touch1 + ((x - 60) \div 90) + 4 * (y \div 90)
            /\ (x >= 60 /\ x < 420 /\ y < 270) => zone \in Touch1..(Touch1 + 11)
            /\ (x = 0 /\ y = 0) => zone = 1
            /\ (x = 425 /\ y = 0) => zone = 2
            /\ (x = 60 /\ y = 0) => zone = 3
            /\ (x = 149 /\ y = 0) => zone = 3
            /\ (x = 150 /\ y = 0) => zone = 4
            /\ (x = 60 /\ y = 90) => zone = 7
            /\ (x = 60 /\ y = 180) => zone = 11

\* C17 witness: the last column of the grid in its last row has been mapped
\* to the twelfth zone.
C17_Witness ==
    /\ task.fn = "touch"
    /\ taskPc = "done"
    /\ task.x = 419
    /\ task.y = 269
    /\ zone = Touch1 + 11

\* C18: Draw hands the transport one WriteFramebuff frame whose payload is
\* the big-endian 16-bit fields id, xoff+offsetx, yoff+offsety, width, height
\* followed by two bytes per pixel in row-major order, and then one Draw
\* frame whose payload is the big-endian 16-bit id; a 2x2 image at (10,20) on
\* id 0x41 with offset (60,0) gives 00 41 00 46 00 14 00 02 00 02, 8 pixel
\* bytes, then 00 41.
C18_DrawFraming ==
    /\ (task.fn = "draw" /\ taskPc = "start") => written = <<>>
    /\ (task.fn = "draw" /\ taskPc = "framebuff") => Len(written) = 1
    /\ (task.fn = "draw" /\ taskPc = "done") =>
          LET d == task.d
              im == task.im
              fb == written[1]
              dr == written[2]
          IN  /\ Len(written) = 2
              /\ fb[2] = WriteFramebuff
              /\ Len(fb) = 3 + 10 + 2 * im.w * im.h
              /\ Uint16(fb[4], fb[5]) = d.id
              /\ Uint16(fb[6], fb[7]) = task.xoff + d.offsetx
              /\ Uint16(fb[8], fb[9]) = task.yoff + d.offsety
              /\ Uint16(fb[10], fb[11]) = im.w
              /\ Uint16(fb[12], fb[13]) = im.h
              /\ \A k \in 0..(im.w * im.h - 1) :
                    LET pixel == im.px[<<k % im.w, k \div im.w>>]
                        b1 == fb[14 + 2 * k]
                        b2 == fb[15 + 2 * k]
                    IN  IF d.bigEndian THEN Uint16(b1, b2) = pixel
                                       ELSE Uint16(b2, b1) = pixel
              /\ dr[2] = Draw
              /\ SubSeq(dr, 4, Len(dr)) = <<0, d.id>>
              /\ (d.id = 65 /\ d.offsetx = 60 /\ d.offsety = 0 /\ im.w = 2 /\ im.h = 2
                  /\ task.xoff = 10 /\ task.yoff = 20) =>
                    /\ SubSeq(fb, 4, 13) = <<0, 65, 0, 70, 0, 20, 0, 2, 0, 2>>
                    /\ Len(fb) = 3 + 10 + 8
                    /\ SubSeq(dr, 4, Len(dr)) = <<0, 65>>

\* C18 witness: the 2x2 image has been drawn at (10,20) on the display with
\* id 0x41 and offset (60,0), and both frames have been handed over.
C18_Witness ==
    /\ task.fn = "draw"
    /\ taskPc = "done"
    /\ task.d.id = 65
    /\ task.d.offsetx = 60
    /\ task.im.w = 2
    /\ task.im.h = 2
    /\ task.xoff = 10
    /\ task.yoff = 20
    /\ Len(written) = 2

\* C19 (as claimed): once the connect has returned a session handle,
\* GetDisplay("left"), GetDisplay("main") and GetDisplay("right") return
\* descriptors without any further call by the application.
C19_DisplaysAtConnect ==
    (connPc = "returned" /\ connRet.l # 0) =>
        /\ GetDisplay("left") # Nil
        /\ GetDisplay("main") # Nil
        /\ GetDisplay("right") # Nil

\* C20: tryConnect makes at most two doConnect calls; a result delivered by
\* the first before the timeout is what tryConnect returns, with no second
\* call; the timeout is taken only while the first has delivered nothing,
\* and then exactly one more call is made and its result returned.
C20_BoundedRetry ==
    /\ nattempts <= 2
    /\ ~timer => (nattempts <= 1 /\ attempt[2] = NoAttempt)
    /\ timer => nattempts = 2
    /\ (timer /\ attempt[1].delivered) => result = <<connectResult(1)>>
    /\ (~timer /\ attempt[1].delivered /\ connPc = "select") => result = <<connectResult(1)>>
    /\ connRet # NoResult =>
          IF timer
          THEN attempt[2].pc = "returned" /\ connRet = connectResult(2)
          ELSE attempt[1].delivered /\ connRet = connectResult(1)

\* C20 witness: the timeout was taken, the first attempt delivered its result
\* afterwards, and tryConnect has returned the handle of the second attempt.
C20_Witness ==
    /\ timer
    /\ connPc = "returned"
    /\ attempt[1].delivered
    /\ attempt[1].err = "nil"
    /\ connRet = [l |-> 2, err |-> "nil"]

\* ------------------------------------------------ claims of the helper objects
\* C21: WatchedInt.Set(v) stores v and then calls every registered watcher
\* exactly once, in registration order, with v, also when v is the value
\* already held; Get, inside any watcher and afterwards, returns v.
C21_SetNotifiesAll ==
    (scene = "watched" /\ lastOp.op = "Set") =>
        /\ watched.value = lastOp.arg
        /\ Len(watched.calls) = Len(watched.notifiers)
        /\ \A i \in 1..Len(watched.notifiers) :
              /\ watched.calls[i].f = i
              /\ watched.calls[i].arg = lastOp.arg
              /\ watched.calls[i].get = lastOp.arg

\* Set of the value already held, with two watchers, both called in order
C21_Witness ==
    /\ scene = "watched"
    /\ lastOp.op = "Set"
    /\ lastOp.arg = lastOp.before
    /\ Len(watched.notifiers) = 2
    /\ Len(watched.calls) = 2
    /\ watched.calls[1].f = 1
    /\ watched.calls[2].f = 2

\* C22: the watched value of an IntKnob with min <= max that starts inside
\* [min, max] stays inside [min, max] under every Inc(d) and Set(v); Set(v)
\* with v < min leaves min, with v > max leaves max; nothing fails.
C22_KnobClamped ==
    scene = "intknob" =>
        /\ ikMin <= watched.value
        /\ watched.value <= ikMax
        /\ (lastOp.op = "Set" /\ lastOp.arg < ikMin) => watched.value = ikMin
        /\ (lastOp.op = "Set" /\ lastOp.arg > ikMax) => watched.value = ikMax
        /\ ~fatal

\* an Inc whose sum passes the largest int ends at min
C22_Witness ==
    /\ scene = "intknob"
    /\ lastOp.op = "Inc"
    /\ lastOp.arg = IntMax
    /\ lastOp.before > 0
    /\ ikMin < ikMax
    /\ watched.value = ikMin

\* C23: a button-down event on the knob's own button resets the watched
\* value of the IntKnob to 0.
C23_ButtonResetsToZero ==
    (scene = "intknob" /\ lastOp.op = "Button" /\ lastOp.arg = ButtonDown) =>
        watched.value = 0

\* C24: for a MultiButton holding N entries, N touches bring the watched
\* value back to what it was before the first touch, N+1 touches leave what
\* one touch leaves, and each touch sets the value of the entry after the
\* current one, wrapping from the last to the first.
C24_Cycle ==
    scene = "multibutton" =>
        LET N == Len(mbValues)
        IN  /\ Len(mbTrace) >= N + 1 => mbTrace[N + 1] = mbTrace[1]
            /\ Len(mbTrace) >= N + 2 => mbTrace[N + 2] = mbTrace[2]

\* C25: a completed gesture is a click exactly when the elapsed time is at
\* most 500 ms and both dx and dy are within -20..20; otherwise it is a drag
\* that reports (dx, dy).
C25_ClickOrDrag ==
    (scene = "dial" /\ gesture.phase = "done") =>
        LET dx == gesture.ux - gesture.x0
            dy == gesture.uy - gesture.y0
            elapsed == gesture.ut - gesture.t0
            click == /\ elapsed <= 500
                     /\ -20 <= dx /\ dx <= 20
                     /\ -20 <= dy /\ dy <= 20
        IN  /\ Len(dragLog) = 1
            /\ click <=> dragLog[1].event = DragClick
            /\ ~click => dragLog[1] = [event |-> DragDone, x |-> dx, y |-> dy]

\* displacement (5, -3) after 600 ms: a drag with delta (5, -3)
C25_Witness ==
    /\ scene = "dial"
    /\ gesture.phase = "done"
    /\ gesture.ut - gesture.t0 = 600
    /\ gesture.ux - gesture.x0 = 5
    /\ gesture.uy - gesture.y0 = -3
    /\ dragLog = <<[event |-> DragDone, x |-> 5, y |-> -3]>>

\* C26: a gesture (a touch-down, further touch-downs, a touch-up) calls the
\* watcher exactly once, at the touch-up, with DragClick or DragDone; a
\* touch-down during a gesture leaves the recorded start as it is; a
\* touch-up outside a gesture calls nothing.
C26_Step ==
    /\ (gesture'.phase = "open") =>
          /\ dragLog' = <<>>
          /\ dragDKStarted'
          /\ dragDKStartX' = gesture'.x0
          /\ dragDKStartY' = gesture'.y0
          /\ dragDKStartTime' = gesture'.t0
    /\ (gesture.phase = "open" /\ gesture'.phase = "open") =>
          UNCHANGED <<dragDKStartX, dragDKStartY, dragDKStartTime>>
    /\ (gesture.phase = "open" /\ gesture'.phase = "done") =>
          /\ Len(dragLog') = 1
          /\ dragLog'[1].event \in {DragClick, DragDone}
    /\ (gesture.phase = "done" /\ gesture'.phase = "done") => dragLog' = dragLog
    /\ (gesture'.phase = "stray") =>
          /\ dragLog' = dragLog
          /\ wLog' = <<>>
          /\ UNCHANGED <<active, wActive>>

C26_OncePerGesture == [][C26_Step]_vars

\* a gesture of two touch-downs, ended: one call, start still the first
\* touch-down
C26_Witness ==
    /\ scene = "dial"
    /\ gesture.phase = "done"
    /\ gesture.downs = 2
    /\ Len(dragLog) = 1
    /\ dragDKStartX = gesture.x0
    /\ gesture.ut > gesture.t0

\* C27: a click is reported with DragClick and the coordinates of the
\* gesture's first touch-down; a drag with DragDone and the delta between
\* the touch-up and the start.
C27_ClickAtStart ==
    (scene = "dial" /\ gesture.phase = "done" /\ Len(dragLog) = 1) =>
        /\ dragLog[1].event = DragClick =>
              (dragLog[1].x = gesture.x0 /\ dragLog[1].y = gesture.y0)
        /\ dragLog[1].event = DragDone =>
              /\ dragLog[1].x = gesture.ux - gesture.x0
              /\ dragLog[1].y = gesture.uy - gesture.y0

\* C28: the active index of a WidgetHolder over n widgets is in 0..n-1 and
\* exactly the widget at it is activated, the previous one deactivated
\* before the next one is activated; a drag with dx < -20 moves the index to
\* (i+1) mod n, one with dx > 20 to (i-1) mod n, anything else leaves it.
C28_Step ==
    /\ scene' = "dial" =>
          /\ active' \in 0..(count' - 1)
          /\ DOMAIN wActive' = 0..(count' - 1)
          /\ \A i \in 0..(count' - 1) : wActive'[i] <=> i = active'
    /\ (scene = "dial" /\ gesture.phase = "open" /\ gesture'.phase = "done") =>
          LET c == dragLog'[1]
          IN  /\ (c.event = DragDone /\ c.x < -20) =>
                    /\ active' = (active + 1) % count
                    /\ wLog'[1] = [op |-> "Deactivate", i |-> active]
                    /\ wLog'[2] = [op |-> "Activate", i |-> active']
              /\ (c.event = DragDone /\ c.x > 20) =>
                    /\ active' = (active + count - 1) % count
                    /\ wLog'[1] = [op |-> "Deactivate", i |-> active]
                    /\ wLog'[2] = [op |-> "Activate", i |-> active']
              /\ (c.event = DragClick \/ (c.x >= -20 /\ c.x <= 20)) =>
                    /\ active' = active
                    /\ wLog' = <<>>
    /\ (scene = "dial" /\ ~(gesture.phase = "open" /\ gesture'.phase = "done")) =>
          UNCHANGED <<active, wActive>>

C29_SendLeavesNoCallback ==
    \A s \in Senders :
        (snd[s].op = "Send" /\ snd[s].pc = "idle" /\ snd[s].txn # 0) =>
            Lookup(transactionCallbacks, snd[s].txn) = Nil

\* C30: a frame with a non-zero transaction ID and no callback registered
\* for it is dispatched by its type: a Touch frame in a bound zone calls the
\* touch binding.
C30_FallThrough ==
    [][ ( /\ loopPc = "read"
          /\ nread' = nread + 1
          /\ Len(Head(wire).b) >= 9
          /\ Head(wire).b[2] = Touch
          /\ Head(wire).b[3] # 0
          /\ Lookup(transactionCallbacks, Head(wire).b[3]) = Nil
          /\ touchCoordToButton(Uint16(Head(wire).b[5], Head(wire).b[6]),
                                Uint16(Head(wire).b[7], Head(wire).b[8]))
                \in touchBindings )
        => /\ loopPc' = "binding"
           /\ \E h \in fired' : h.kind = "touchDown"
      ]_vars

\* C31: every access to the pending-transaction table is made under mutual
\* exclusion: while a sender is inside its assignment to the table, the
\* receive loop neither looks an ID up in it nor clears an entry of it.
C31_TableExclusive ==
    [][ (\E s \in Senders : snd[s].pc = "mapwrite")
        => /\ ~( /\ nread' = nread + 1
                 /\ Len(Head(wire).b) >= 3
                 /\ Head(wire).b[3] # 0 )
           /\ ~( /\ loopPc \in {"callback", "sent"}
                 /\ loopPc' = "read" )
      ]_vars

\* C32: a callback registered by SendWithCallback stays registered until a
\* frame with its transaction ID arrives: no NewMessage, Send or
\* SendWithCallback replaces or removes it, also when the IDs wrap while the
\* request is pending.
C32_StaysRegistered ==
    [][ \A k \in DOMAIN transactionCallbacks :
          ( /\ transactionCallbacks[k] # Nil
            /\ Lookup(transactionCallbacks', k) # transactionCallbacks[k] )
          => /\ loopPc \in {"callback", "sent"}
             /\ loopPc' = "read"
             /\ cur.b[3] = k
      ]_vars

\* ------------------------------------------------- claims of the connect
\* C33: the first handshake attempt is aborted before the second starts: at
\* no time are two attempts reading from or writing to the same transport.
C33_OneAttemptOnTransport ==
    LET OnTransport(a) ==
            attempt[a].pc \in {"dial", "reset", "brightness", "version", "serial"}
    IN  ~(OnTransport(1) /\ OnTransport(2))

\* ------------------------------------------------ claims of the dispatch
\* C34 (as claimed): the identifier of a ButtonPress or KnobRotate frame is
\* the big-endian 16-bit value of the first two payload bytes (frame bytes 3
\* and 4) and the status or delta is the third payload byte (frame byte 5).
C34_PayloadLayout ==
    [][ ( /\ loopPc = "read"
          /\ nread' = nread + 1
          /\ Len(Head(wire).b) >= 6
          /\ Head(wire).b[2] \in {ButtonPress, KnobRotate}
          /\ Head(wire).b[3] = 0 )
        => LET id == Uint16(Head(wire).b[4], Head(wire).b[5])
               v == Head(wire).b[6]
               bound == IF Head(wire).b[2] = KnobRotate THEN id \in knobBindings
                        ELSE \/ v = ButtonDown /\ id \in buttonBindings
                             \/ v = ButtonUp /\ id \in buttonUpBindings
           IN  /\ bound => fired' # {}
               /\ \A h \in fired' : h.id = id /\ bound
      ]_vars

\* C34 (amended): the identifier is the big-endian 16-bit value of frame
\* bytes 2 and 3, i.e. of the transaction-ID byte (0 in every frame that is
\* dispatched by type) and the first payload byte, and the status or delta
\* is frame byte 4, the second payload byte.
C34_HeaderLayout ==
    [][ ( /\ loopPc = "read"
          /\ nread' = nread + 1
          /\ Len(Head(wire).b) >= 5
          /\ Head(wire).b[2] \in {ButtonPress, KnobRotate}
          /\ Head(wire).b[3] = 0 )
        => LET id == Uint16(Head(wire).b[3], Head(wire).b[4])
               v == Head(wire).b[5]
               bound == IF Head(wire).b[2] = KnobRotate THEN id \in knobBindings
                        ELSE \/ v = ButtonDown /\ id \in buttonBindings
                             \/ v = ButtonUp /\ id \in buttonUpBindings
           IN  /\ bound => fired' # {}
               /\ \A h \in fired' :
                     /\ h.id = id
                     /\ bound
                     /\ h.arg[1] = IF h.kind = "knob" /\ v = 255 THEN -1 ELSE v
      ]_vars

\* C34 witness: the binding of Knob1 runs for a five-byte frame whose byte 3
\* is Knob1 and whose byte 4 is the magnitude
C34_Witness ==
    /\ loopPc = "binding"
    /\ curCb.kind = "knob"
    /\ Len(cur.b) = 5
    /\ cur.b[3] = 0
    /\ cur.b[4] = Knob1
    /\ curCb.id = Knob1
    /\ cur.b[5] = 127
    /\ curCb.arg = <<127>>

C36_InsidePanel ==
    \A l \in DOMAIN displays :
        \A n \in DOMAIN displays[l] :
            LET d == displays[l][n]
                panelWidth == IF d.id \in {76, 82} THEN 60
                              ELSE IF d.id = 65 THEN 360
                              ELSE IF d.id = 77 THEN 480
                              ELSE 240
                panelHeight == IF d.id = 87 THEN 240 ELSE 270
            IN  /\ d.offsetx + d.width <= panelWidth
                /\ d.offsety + d.height <= panelHeight

\* ----------------------------------------------- claims of the touch dials
\* C37: a touch-down on the strip while no drag is going on records y and the
\* three values and changes no value; a touch-down at y while a drag is going
\* on sets each knob to its recorded value plus (reference - y) / divisor,
\* truncated toward zero, clamped to [min, max].
C37_DragSample ==
    [][ ( /\ scene = "touchdial"
          /\ lastOp'.op = "Touch"
          /\ touchCoordToButton(lastOp'.before, lastOp'.arg) = TouchLeft )
        => IF dragstart = NoDrag
           THEN /\ dragstart' = lastOp'.arg
                /\ dragv' = tdValues
                /\ tdValues' = tdValues
           ELSE /\ touchdivisor # 0
                /\ dragstart' = dragstart
                /\ dragv' = dragv
                /\ \A i \in 1..3 :
                      LET d == dragstart - lastOp'.arg
                          q == IF d >= 0 THEN d \div touchdivisor
                               ELSE -((-d) \div touchdivisor)
                          v == dragv[i] + q
                      IN  tdValues'[i] = IF v < tdMin THEN tdMin
                                         ELSE IF v > tdMax THEN tdMax ELSE v
      ]_vars

\* C38: a touch-up while a drag is going on puts the dial bank back in the
\* not-dragging state, wherever its coordinates fall.
C38_TouchUpEndsDrag ==
    [][ ( /\ scene = "touchdial"
          /\ lastOp'.op = "TouchEnd"
          /\ dragstart # NoDrag )
        => dragstart' = NoDrag
      ]_vars

\* C39: the divisor of a TouchDial is not zero and no sample of a drag
\* panics in the receive loop.
C39_DivisorNonZero ==
    /\ scene = "touchdial" => touchdivisor # 0
    /\ loopPc # "panicked"

\* ---------------------------------------------- claims of the widget holder
\* C40: a rotation of the large knob changes the value of the active widget
\* alone, by the rotation and clamped to that widget's [Min, Max]; the values
\* of the other widgets stay; and a widget that draws has the focus.
C40_KnobTurnsActive ==
    [][ /\ ( scene = "dial" /\ lastOp'.op = "KnobRotate" ) =>
              \A i \in 0..(count - 1) :
                  IF i = active
                  THEN LET x == wValue[i] + lastOp'.arg
                           w == HolderWidgets[i + 1]
                       IN  wValue'[i] = IF x < w.Min THEN w.Min
                                        ELSE IF x > w.Max THEN w.Max ELSE x
                  ELSE wValue'[i] = wValue[i]
        /\ \A k \in DOMAIN wDrew' : wActive'[wDrew'[k]] /\ wDrew'[k] = active'
      ]_vars

\* C40 witness: after swipes that left the third of three widgets active, a
\* rotation by 3 has taken its value from 1 to its Max, 3, and the values of
\* the two others are as they were
C40_Witness ==
    /\ scene = "dial"
    /\ count = 3
    /\ active = 2
    /\ wActive = [i \in 0..2 |-> i = 2]
    /\ lastOp.op = "KnobRotate"
    /\ lastOp.arg = 3
    /\ lastOp.before = [i \in 0..2 |-> HolderWidgets[i + 1].Value]
    /\ wValue = [lastOp.before EXCEPT ![2] = 3]

====
